---- MODULE Spec2Model ----
(***************************************************************************)
(* Model of the resume-checker analysis engine, SimpleATSAnalyzer          *)
(* (src/src/lib/analyzer.ts).                                              *)
(*                                                                         *)
(* Text is modelled character by character: a string is a sequence of      *)
(* Unicode code points, so that whitespace collapsing, line splitting,     *)
(* case folding, substring search and the regular expressions of the       *)
(* source act on the model exactly as on the program's strings.            *)
(* An optional value (string | undefined) is a sequence of length <= 1:    *)
(* <<>> is undefined and <<s>> is the string s.                            *)
(***************************************************************************)
EXTENDS Integers, Sequences, FiniteSets, TLC

\* analyzers        the fields of each SimpleATSAnalyzer instance
\* self, resumeText, vacancyText, result
\*                  the instance, the arguments and the return value of the latest
\*                  analyzeResume call
\* log              the completed analyzeResume calls, oldest first
\* experienceArgs, experienceScore
\*                  the arguments (resume, requirements) and the return value of a
\*                  direct analyzeExperience call

VARIABLES analyzers, self, resumeText, vacancyText, result, log,
          experienceArgs, experienceScore, request, response, frames, blocks,
          recommendationCall, extracted, upload, page

vars == <<analyzers, self, resumeText, vacancyText, result, log,
          experienceArgs, experienceScore, request, response, frames, blocks,
          recommendationCall, extracted, upload, page>>

(***************************************************************************)
(* Notation for string literals.  Lat("git") is the ASCII string itself;   *)
(* Cyr("opyt") is a Cyrillic string written in a one-letter-per-letter     *)
(* transliteration (characters outside the table stand for themselves).    *)
(***************************************************************************)
LatUpper == "ABCDEFGHIJKLMNOPQRSTUVWXYZ"
LatLower == "abcdefghijklmnopqrstuvwxyz"
LatDigit == "0123456789"
LatPunct == " #%+,-./:@_|()"
PunctCode == <<32, 35, 37, 43, 44, 45, 46, 47, 58, 64, 95, 124, 40, 41>>

IndexIn(tbl, c) == CHOOSE i \in 1..Len(tbl) : SubSeq(tbl, i, i) = c
IsIn(tbl, c) == \E i \in 1..Len(tbl) : SubSeq(tbl, i, i) = c

CharCode(c) == IF c = "\n" THEN 10
               ELSE IF IsIn(LatLower, c) THEN 96 + IndexIn(LatLower, c)
               ELSE IF IsIn(LatUpper, c) THEN 64 + IndexIn(LatUpper, c)
               ELSE IF IsIn(LatDigit, c) THEN 47 + IndexIn(LatDigit, c)
               ELSE PunctCode[IndexIn(LatPunct, c)]

Lat(s) == [i \in 1..Len(s) |-> CharCode(SubSeq(s, i, i))]

\* Cyrillic a..ya (U+0430..U+044F) in alphabet order, then yo (U+0451) as "E".
CyrTable == "abvgdejziJklmnoprstufhcCwWQyqxUA"

CyrCode(c) == IF c = "E" THEN 1105
              ELSE IF \E i \in 1..Len(CyrTable) : SubSeq(CyrTable, i, i) = c
                   THEN 1071 + (CHOOSE i \in 1..Len(CyrTable) : SubSeq(CyrTable, i, i) = c)
                   ELSE CharCode(c)

Cyr(s) == [i \in 1..Len(s) |-> CyrCode(SubSeq(s, i, i))]

\* Upper-case form of the first character (used to write capitalised words).
Cap(s) == <<(IF s[1] = 1105 THEN 1025 ELSE s[1] - 32)>> \o Tail(s)

(***************************************************************************)
(* JavaScript string primitives used by the analyzer.                      *)
(***************************************************************************)
\* The characters matched by \s and removed by String.prototype.trim.
WhiteSpace == {9, 10, 11, 12, 13, 32, 160, 8232, 8233, 65279}

IsDigit(c) == c \in 48..57
IsLatUpper(c) == c \in 65..90
IsLatLower(c) == c \in 97..122
IsCyrUpper(c) == c \in 1040..1071 \/ c = 1025
IsCyrLower(c) == c \in 1072..1103 \/ c = 1105
\* \w of a regular expression without the u flag.
IsWordChar(c) == IsLatUpper(c) \/ IsLatLower(c) \/ IsDigit(c) \/ c = 95

\* String.prototype.toLowerCase on the Latin and Cyrillic letters.
LowerChar(c) == IF IsLatUpper(c) THEN c + 32
                ELSE IF c \in 1040..1071 THEN c + 32
                ELSE IF c = 1025 THEN 1105
                ELSE c

toLowerCase(s) == [i \in 1..Len(s) |-> LowerChar(s[i])]

\* String.prototype.includes.
includes(s, pat) ==
    \/ pat = <<>>
    \/ \E i \in 1..(Len(s) - Len(pat) + 1) :
          s[i] = pat[1] /\ SubSeq(s, i, i + Len(pat) - 1) = pat

\* Array.prototype.includes.
arrayIncludes(arr, x) == \E i \in 1..Len(arr) : arr[i] = x

\* String.prototype.trim.
trim(s) ==
    IF \A i \in 1..Len(s) : s[i] \in WhiteSpace THEN <<>>
    ELSE LET first == CHOOSE i \in 1..Len(s) :
                          s[i] \notin WhiteSpace /\ \A j \in 1..(i - 1) : s[j] \in WhiteSpace
             \* the number of characters removed at the end
             cut == CHOOSE k \in 0..(Len(s) - 1) :
                        /\ s[Len(s) - k] \notin WhiteSpace
                        /\ \A j \in 0..(k - 1) : s[Len(s) - j] \in WhiteSpace
         IN  SubSeq(s, first, Len(s) - cut)

\* String.prototype.split(sep) for a one-character separator.
RECURSIVE split(_, _)
split(s, sep) ==
    IF \A i \in 1..Len(s) : s[i] # sep THEN <<s>>
    ELSE LET k == CHOOSE i \in 1..Len(s) : s[i] = sep /\ \A j \in 1..(i - 1) : s[j] # sep
         IN  <<SubSeq(s, 1, k - 1)>> \o split(SubSeq(s, k + 1, Len(s)), sep)

\* Array.prototype.slice(0, n).
slice0(arr, n) == SubSeq(arr, 1, IF Len(arr) < n THEN Len(arr) ELSE n)

\* String.prototype.split(sep, limit).
splitLimit(s, sep, limit) == slice0(split(s, sep), limit)

\* Array.prototype.join.
RECURSIVE join(_, _)
join(arr, sep) ==
    IF arr = <<>> THEN <<>>
    ELSE IF Len(arr) = 1 THEN arr[1]
    ELSE arr[1] \o sep \o join(Tail(arr), sep)

\* Array.from(new Set(arr)): the first occurrence of every element, in order.
dedupe(arr) ==
    LET idx == SelectSeq([i \in 1..Len(arr) |-> i],
                         LAMBDA i : \A j \in 1..(i - 1) : arr[j] # arr[i])
    IN  [k \in 1..Len(idx) |-> arr[idx[k]]]

\* Array.prototype.filter.
filter(arr, Test(_)) == SelectSeq(arr, Test)

Min(a, b) == IF a < b THEN a ELSE b

NewLine == 10
Space == 32
Colon == 58

undefined == <<>>
Some(s) == <<s>>
\* Truthiness of a string | undefined value.
Truthy(v) == v # undefined /\ v[1] # <<>>

(***************************************************************************)
(* The fields of a freshly constructed SimpleATSAnalyzer.                  *)
(* weights are in hundredths (0.40 is 40).                                 *)
(***************************************************************************)
weights == [keywords |-> 40, structure |-> 30, contacts |-> 15, experience |-> 15]

SectionTypes == <<"experience", "education", "skills", "contacts", "about">>

standardSections ==
  [experience |-> <<Cyr("opyt raboty"),
                   Cyr("opyt"),
                   Cyr("karqera"),
                   Cyr("rabota"),
                   Cyr("trudovaA deAtelqnostq"),
                   Cyr("professionalqnyJ opyt")>>,
   education  |-> <<Cyr("obrazovanie"),
                   Cyr("uCeba"),
                   Cyr("obuCenie"),
                   Cyr("kvalifikaciA")>>,
   skills     |-> <<Cyr("navyki"),
                   Cyr("klUCevye navyki"),
                   Cyr("tehnologii"),
                   Cyr("kompetencii"),
                   Cyr("umeniA"),
                   Cyr("professionalqnye navyki")>>,
   contacts   |-> <<Cyr("kontakty"),
                   Cyr("kontaktnaA informaciA"),
                   Cyr("svAzq"),
                   Cyr("kontaktnye dannye")>>,
   about      |-> <<Cyr("o sebe"),
                   Cyr("obo mne"),
                   Cyr("liCnaA informaciA"),
                   Cyr("kratkaA informaciA"),
                   Cyr("rezUme")>>]

itSkills ==
  <<Lat("python"),
    Lat("java"),
    Lat("javascript"),
    Lat("react"),
    Lat("angular"),
    Lat("vue"),
    Lat("node.js"),
    Lat("express"),
    Lat("django"),
    Lat("flask"),
    Lat("spring"),
    Lat("hibernate"),
    Lat("sql"),
    Lat("postgresql"),
    Lat("mysql"),
    Lat("mongodb"),
    Lat("redis"),
    Lat("docker"),
    Lat("kubernetes"),
    Lat("aws"),
    Lat("azure"),
    Lat("git"),
    Lat("jenkins"),
    Lat("ci/cd"),
    Lat("html"),
    Lat("css"),
    Lat("typescript"),
    Lat("php"),
    Lat("laravel"),
    Lat("symfony"),
    Lat("c++"),
    Lat("c#"),
    Lat(".net"),
    Lat("go"),
    Lat("rust"),
    Lat("scala"),
    Lat("kotlin"),
    Lat("swift"),
    Lat("flutter"),
    Lat("react native"),
    Lat("android"),
    Lat("ios"),
    Lat("linux"),
    Lat("windows"),
    Lat("macos"),
    Lat("nginx"),
    Lat("apache"),
    Lat("elasticsearch"),
    Lat("kafka")>>

softSkills ==
  <<Cyr("kommunikaciA"),
    Cyr("komandnaA rabota"),
    Cyr("liderstvo"),
    Cyr("upravlenie proektami"),
    Cyr("analitiCeskoe mywlenie"),
    Cyr("rewenie problem"),
    Cyr("kreativnostq"),
    Cyr("iniciativnostq"),
    Cyr("adaptivnostq"),
    Cyr("obuCaemostq"),
    Cyr("stressoustoJCivostq"),
    Cyr("vnimatelqnostq k detalAm")>>

NewAnalyzer == [weights |-> weights, standardSections |-> standardSections,
                itSkills |-> itSkills, softSkills |-> softSkills]

\* A variant that only trims the text and keeps its line breaks.
normalizeTextKeepLines(text) == trim(text)

\* text.replace(/\s+/g, ' ').trim()
normalizeText(text) ==
    LET idx == SelectSeq([i \in 1..Len(text) |-> i],
                         LAMBDA i : text[i] \notin WhiteSpace
                                    \/ i = 1 \/ text[i - 1] \notin WhiteSpace)
        collapsed == [k \in 1..Len(idx) |->
                        IF text[idx[k]] \in WhiteSpace THEN Space ELSE text[idx[k]]]
    IN  trim(collapsed)

(***************************************************************************)
(* Regular-expression helpers.  RunEnd is the last index of the longest    *)
(* run of characters of a class that starts at i (i - 1 for an empty run). *)
(***************************************************************************)
RunEnd(t, i, InClass(_)) ==
    CHOOSE k \in (i - 1)..Len(t) :
        /\ \A m \in i..k : InClass(t[m])
        /\ (k = Len(t) \/ ~InClass(t[k + 1]))

\* The first index of the longest run of characters of a class that ends at i (i + 1 for
\* an empty run).
RunStart(t, i, InClass(_)) ==
    i + 1 - (CHOOSE k \in 0..i :
                /\ \A m \in 0..(k - 1) : InClass(t[i - m])
                /\ (k = i \/ ~InClass(t[i - k])))

IsSpaceChar(c) == c \in WhiteSpace

SetMin(S) == CHOOSE x \in S : \A y \in S : x <= y
SetMax(S) == CHOOSE x \in S : \A y \in S : x >= y

\* [А-ЯЁ][а-яё]+ at position i: the index of its last character, 0 without a match.
NameWordEnd(t, i) ==
    IF i >= 1 /\ i + 1 <= Len(t) /\ IsCyrUpper(t[i]) /\ IsCyrLower(t[i + 1])
    THEN RunEnd(t, i + 1, IsCyrLower)
    ELSE 0

\* \s+[А-ЯЁ][а-яё]+ right after position e: the index of its last character, 0 without a match.
NextNameWordEnd(t, e) ==
    IF e = 0 \/ e + 1 > Len(t) \/ t[e + 1] \notin WhiteSpace THEN 0
    ELSE NameWordEnd(t, RunEnd(t, e + 1, IsSpaceChar) + 1)

\* (?:\s|$) right after position e.
NameEndsAt(t, e) == e = Len(t) \/ t[e + 1] \in WhiteSpace

\* trimmed.match(/^([А-ЯЁ][а-яё]+(?:\s+[А-ЯЁ][а-яё]+){1,2})(?:\s|$)/): group 1 or undefined.
nameMatch(trimmed) ==
    LET e1 == NameWordEnd(trimmed, 1)
        e2 == NextNameWordEnd(trimmed, e1)
        e3 == NextNameWordEnd(trimmed, e2)
    IN  IF e2 = 0 THEN undefined
        ELSE IF e3 # 0 /\ NameEndsAt(trimmed, e3) THEN Some(SubSeq(trimmed, 1, e3))
        ELSE IF NameEndsAt(trimmed, e2) THEN Some(SubSeq(trimmed, 1, e2))
        ELSE undefined

RECURSIVE firstNameMatch(_)
firstNameMatch(lines) ==
    IF lines = <<>> THEN undefined
    ELSE LET m == nameMatch(trim(Head(lines)))
         IN  IF m # undefined THEN m ELSE firstNameMatch(Tail(lines))

\* A variant that scans the lines 2 to 5 only (slice(1, 5)).
extractNameSkipFirst(text) ==
    LET lines == split(text, NewLine)
    IN  firstNameMatch(SubSeq(lines, 2, Min(5, Len(lines))))

extractName(text) == firstNameMatch(slice0(split(text, NewLine), 5))

IsEmailLocal(c) == IsLatUpper(c) \/ IsLatLower(c) \/ IsDigit(c) \/ c \in {46, 95, 37, 43, 45}
IsEmailDomain(c) == IsLatUpper(c) \/ IsLatLower(c) \/ IsDigit(c) \/ c \in {46, 45}
IsEmailTld(c) == IsLatUpper(c) \/ IsLatLower(c) \/ c = 124

\* text.match(/\b[A-Za-z0-9._%+-]+@[A-Za-z0-9.-]+\.[A-Z|a-z]{2,}\b/): the leftmost match,
\* each quantifier as long as backtracking allows.
extractEmail(text) ==
    LET n == Len(text)
        WordAt(k) == k >= 1 /\ k <= n /\ IsWordChar(text[k])
        \* \b between the characters k - 1 and k
        Boundary(k) == WordAt(k - 1) # WordAt(k)
        \* the starts of a local part that ends right before the @ at a
        Starts(a) == {i \in RunStart(text, a - 1, IsEmailLocal)..(a - 1) : Boundary(i)}
        \* the dots the domain can end before, and the ends of a top-level domain after d
        Dots(a) == {d \in (a + 2)..RunEnd(text, a + 1, IsEmailDomain) : text[d] = 46}
        Ends(d) == {e \in (d + 2)..RunEnd(text, d + 1, IsEmailTld) : Boundary(e + 1)}
        GoodDots(a) == {d \in Dots(a) : Ends(d) # {}}
        Ats == {a \in 1..n : text[a] = 64 /\ Starts(a) # {} /\ GoodDots(a) # {}}
    IN  IF Ats = {} THEN undefined
        ELSE LET a == SetMin(Ats)
             IN  Some(SubSeq(text, SetMin(Starts(a)), SetMax(Ends(SetMax(GoodDots(a))))))

\* Pieces of the telephone patterns.
Lit(c) == [kind |-> "lit", c |-> c, cls |-> {}, n |-> 0]
Sep(cls) == [kind |-> "sep", c |-> 0, cls |-> cls, n |-> 0]
Digits(n) == [kind |-> "digits", c |-> 0, cls |-> {}, n |-> n]

SepWide == WhiteSpace \cup {45, 40, 41}
SepNarrow == WhiteSpace \cup {45}

PhoneTail == <<Sep(SepWide), Digits(3), Sep(SepWide), Digits(3),
               Sep(SepNarrow), Digits(2), Sep(SepNarrow), Digits(2)>>

phonePatterns == << <<Lit(43), Lit(55)>> \o PhoneTail,
                    <<Lit(56)>> \o PhoneTail,
                    SubSeq(PhoneTail, 2, 8) >>

\* The index of the last character of the match of a pattern at position i, -1 without a match.
RECURSIVE MatchAt(_, _, _)
MatchAt(t, i, pattern) ==
    IF pattern = <<>> THEN i - 1
    ELSE LET item == Head(pattern)
         IN  CASE item.kind = "lit" ->
                    IF i <= Len(t) /\ t[i] = item.c
                    THEN MatchAt(t, i + 1, Tail(pattern)) ELSE -1
               [] item.kind = "sep" ->
                    LET InSep(c) == c \in item.cls
                    IN  MatchAt(t, RunEnd(t, i, InSep) + 1, Tail(pattern))
               [] item.kind = "digits" ->
                    IF i + item.n - 1 <= Len(t) /\ \A k \in i..(i + item.n - 1) : IsDigit(t[k])
                    THEN MatchAt(t, i + item.n, Tail(pattern)) ELSE -1

\* text.match(pattern): the leftmost match or undefined.
phoneMatch(text, pattern) ==
    LET starts == {i \in 1..Len(text) : MatchAt(text, i, pattern) # -1}
    IN  IF starts = {} THEN undefined
        ELSE Some(SubSeq(text, SetMin(starts), MatchAt(text, SetMin(starts), pattern)))

RECURSIVE firstPhoneMatch(_, _)
firstPhoneMatch(text, patterns) ==
    IF patterns = <<>> THEN undefined
    ELSE LET m == phoneMatch(text, Head(patterns))
         IN  IF m # undefined THEN m ELSE firstPhoneMatch(text, Tail(patterns))

\* A variant that returns the empty string where no pattern matches.
extractPhoneOrEmpty(text) ==
    LET match == firstPhoneMatch(text, phonePatterns)
    IN  IF match = undefined THEN Some(<<>>) ELSE match

extractPhone(text) == firstPhoneMatch(text, phonePatterns)

positionKeywords == <<Cyr("doljnostq"), Cyr("poziciA"), Cyr("specialqnostq"),
                      Cyr("professiA"), Cyr("celq")>>

\* The value returned while scanning one line with the remaining keywords, or undefined.
RECURSIVE positionInLine(_, _)
positionInLine(line, keywords) ==
    IF keywords = <<>> THEN undefined
    ELSE LET lowerLine == trim(toLowerCase(line))
             parts == splitLimit(line, Colon, 1)
         IN  IF includes(lowerLine, Head(keywords)) /\ Len(parts) > 1
             THEN Some(trim(parts[2]))
             ELSE positionInLine(line, Tail(keywords))

RECURSIVE firstPosition(_)
firstPosition(lines) ==
    IF lines = <<>> THEN undefined
    ELSE LET m == positionInLine(Head(lines), positionKeywords)
         IN  IF m # undefined THEN m ELSE firstPosition(Tail(lines))

extractPosition(text) == firstPosition(slice0(split(text, NewLine), 10))

(***************************************************************************)
(* The methods that read the analyzer's tables take the instance as this.  *)
(***************************************************************************)
extractSkills(this, text) ==
    LET textLower == toLowerCase(text)
        Found(skill) == includes(textLower, toLowerCase(skill))
    IN  dedupe(filter(this.itSkills, Found) \o filter(this.softSkills, Found))

\* A variant that compares the keywords with the text as written, capitals included.
detectSectionsCaseSensitive(this, text) ==
    LET Present(sectionType) ==
            \E i \in 1..Len(this.standardSections[sectionType]) :
                includes(text, this.standardSections[sectionType][i])
    IN  dedupe(filter(SectionTypes, Present))

detectSections(this, text) ==
    LET textLower == toLowerCase(text)
        Present(sectionType) ==
            \E i \in 1..Len(this.standardSections[sectionType]) :
                includes(textLower, this.standardSections[sectionType][i])
    IN  dedupe(filter(SectionTypes, Present))

\* Object.values(this.standardSections).flat()
allSectionKeywords(this) ==
    this.standardSections.experience \o this.standardSections.education
      \o this.standardSections.skills \o this.standardSections.contacts
      \o this.standardSections.about

\* A variant of the loop that leaves the section at a line with a keyword of another
\* section and goes on to the next line, instead of ending.
RECURSIVE scanSectionReentrant(_, _, _, _, _)
scanSectionReentrant(this, category, lines, inSection, collected) ==
    IF lines = <<>> THEN collected
    ELSE LET line == Head(lines)
             lowerLine == trim(toLowerCase(line))
             own == this.standardSections[category]
             IsOther(keyword) == ~arrayIncludes(own, keyword)
             others == filter(allSectionKeywords(this), IsOther)
         IN  IF \E i \in 1..Len(own) : includes(lowerLine, own[i])
             THEN scanSectionReentrant(this, category, Tail(lines), TRUE, collected)
             ELSE IF inSection /\ \E i \in 1..Len(others) : includes(lowerLine, others[i])
             THEN scanSectionReentrant(this, category, Tail(lines), FALSE, collected)
             ELSE IF inSection /\ trim(line) # <<>>
             THEN scanSectionReentrant(this, category, Tail(lines), inSection,
                                       Append(collected, line))
             ELSE scanSectionReentrant(this, category, Tail(lines), inSection, collected)

\* The loop of extractExperienceSection / extractEducationSection over the remaining
\* lines: inSection is the flag, collected the lines pushed so far.
RECURSIVE scanSection(_, _, _, _, _)
scanSection(this, category, lines, inSection, collected) ==
    IF lines = <<>> THEN collected
    ELSE LET line == Head(lines)
             lowerLine == trim(toLowerCase(line))
             own == this.standardSections[category]
             IsOther(keyword) == ~arrayIncludes(own, keyword)
             others == filter(allSectionKeywords(this), IsOther)
         IN  IF \E i \in 1..Len(own) : includes(lowerLine, own[i])
             THEN scanSection(this, category, Tail(lines), TRUE, collected)
             ELSE IF inSection /\ \E i \in 1..Len(others) : includes(lowerLine, others[i])
             THEN collected
             ELSE IF inSection /\ trim(line) # <<>>
             THEN scanSection(this, category, Tail(lines), inSection, Append(collected, line))
             ELSE scanSection(this, category, Tail(lines), inSection, collected)

extractExperienceSection(this, text) ==
    join(scanSection(this, "experience", split(text, NewLine), FALSE, <<>>), <<NewLine>>)

extractEducationSection(this, text) ==
    join(scanSection(this, "education", split(text, NewLine), FALSE, <<>>), <<NewLine>>)

parseResume(this, text) ==
    LET normalizedText == normalizeText(text)
    IN  [name       |-> extractName(normalizedText),
         email      |-> extractEmail(normalizedText),
         phone      |-> extractPhone(normalizedText),
         position   |-> extractPosition(normalizedText),
         skills     |-> extractSkills(this, normalizedText),
         experience |-> extractExperienceSection(this, normalizedText),
         education  |-> extractEducationSection(this, normalizedText),
         sections   |-> detectSections(this, normalizedText),
         rawText    |-> normalizedText]

\* textLower.match(/[а-яё]{3,}/g) || []: the maximal runs of 3 or more lower-case
\* Cyrillic letters, in text order.
cyrillicWords(textLower) ==
    LET starts == SelectSeq([i \in 1..Len(textLower) |-> i],
                            LAMBDA i : /\ IsCyrLower(textLower[i])
                                       /\ (i = 1 \/ ~IsCyrLower(textLower[i - 1]))
                                       /\ RunEnd(textLower, i, IsCyrLower) - i + 1 >= 3)
    IN  [k \in 1..Len(starts) |->
            SubSeq(textLower, starts[k], RunEnd(textLower, starts[k], IsCyrLower))]

\* Object.entries(wordFreq): the distinct words in order of first insertion, each with
\* its number of occurrences.
wordFreqEntries(words) ==
    LET keys == dedupe(words)
    IN  [k \in 1..Len(keys) |->
            [word |-> keys[k],
             freq |-> Cardinality({i \in 1..Len(words) : words[i] = keys[k]})]]

\* A variant of the sort that puts the later of two entries of equal frequency first.
sortByFreqTiesReversed(entries) ==
    LET Rank(i) == Cardinality({j \in 1..Len(entries) :
                        \/ entries[j].freq > entries[i].freq
                        \/ (entries[j].freq = entries[i].freq /\ j > i)}) + 1
    IN  [k \in 1..Len(entries) |->
            entries[CHOOSE i \in 1..Len(entries) : Rank(i) = k]]

\* Array.prototype.sort(([, a], [, b]) => b - a): stable, by decreasing frequency.
sortByFreq(entries) ==
    LET Rank(i) == Cardinality({j \in 1..Len(entries) :
                        \/ entries[j].freq > entries[i].freq
                        \/ (entries[j].freq = entries[i].freq /\ j < i)}) + 1
    IN  [k \in 1..Len(entries) |->
            entries[CHOOSE i \in 1..Len(entries) : Rank(i) = k]]

extractVacancyRequirements(this, vacancyTextArg) ==
    LET textLower == toLowerCase(vacancyTextArg)
        Found(skill) == includes(textLower, toLowerCase(skill))
        Frequent(entry) == entry.freq > 1
        ranked == slice0(sortByFreq(filter(wordFreqEntries(cyrillicWords(textLower)),
                                           Frequent)), 20)
    IN  [technicalSkills |-> filter(this.itSkills, Found),
         softSkills      |-> filter(this.softSkills, Found),
         keywords        |-> [k \in 1..Len(ranked) |-> ranked[k].word]]

(***************************************************************************)
(* Math.round.  The program computes in IEEE-754 doubles; the model        *)
(* computes the same values in integers.  RoundDiv(a, b) is a / b rounded  *)
(* to the nearest integer, halves upwards, for a >= 0 and b > 0.  Where    *)
(* the double result of the source expression falls on the other side of a *)
(* half than the exact quotient, the operator lists the case.              *)
(***************************************************************************)
RoundDiv(a, b) == (2 * a + b) \div (2 * b)

\* Math.round((matched / total) * 100) for 0 <= matched <= total, 1 <= total <= 81
\* (49 + 12 + 20 requirements at most).  23/40 and 46/80 evaluate to
\* 57.49999999999999 in doubles, every other quotient rounds as the exact value.
roundPercent(matched, total) ==
    IF <<matched, total>> \in {<<23, 40>>, <<46, 80>>} THEN 57
    ELSE RoundDiv(100 * matched, total)

\* A variant that adds the weighted values without scaling the weights to fractions.
roundWeightedUnscaled(b, w) ==
    b.keywords * w.keywords + b.structure * w.structure
      + b.contacts * w.contacts + b.experience * w.experience

\* A variant that truncates (Math.floor) instead of rounding.
roundWeightedFloor(b, w) ==
    (b.keywords * w.keywords + b.structure * w.structure
       + b.contacts * w.contacts + b.experience * w.experience) \div 100

\* Math.round(k * 0.40 + s * 0.30 + c * 0.15 + e * 0.15) of the values the four scorers
\* can return, with w in hundredths.  For the listed arguments the double sum lies just
\* below the half the exact sum lies on.
roundWeighted(b, w) ==
    LET exact == RoundDiv(b.keywords * w.keywords + b.structure * w.structure
                            + b.contacts * w.contacts + b.experience * w.experience, 100)
    IN  IF /\ w = weights
           /\ <<b.keywords, b.structure, b.contacts, b.experience>> \in
                {<<1, 62, 0, 50>>, <<1, 62, 0, 70>>, <<1, 62, 20, 50>>, <<1, 77, 0, 0>>,
                 <<1, 77, 0, 40>>, <<1, 77, 20, 0>>, <<1, 77, 40, 0>>}
        THEN exact - 1
        ELSE exact

\* The loop of analyzeKeywords: the combined requirement list and its partition.
partitionRequirements(resume, requirements) ==
    LET resumeTextLower == toLowerCase(resume.rawText)
        allRequirements == requirements.technicalSkills \o requirements.softSkills
                             \o requirements.keywords
        IsMatched(requirement) == includes(resumeTextLower, toLowerCase(requirement))
        IsMissing(requirement) == ~IsMatched(requirement)
    IN  [allRequirements |-> allRequirements,
         matched |-> filter(allRequirements, IsMatched),
         missing |-> filter(allRequirements, IsMissing)]

\* A variant that gives the full score as soon as one requirement is matched.
analyzeKeywordsAnyMatch(resume, requirements) ==
    LET p == partitionRequirements(resume, requirements)
    IN  IF Len(p.allRequirements) = 0 THEN <<100, <<>>, <<>> >>
        ELSE <<IF Len(p.matched) > 0 THEN 100 ELSE 0, p.matched, slice0(p.missing, 10)>>

\* A variant that returns the whole missing list.
analyzeKeywordsUncapped(resume, requirements) ==
    LET p == partitionRequirements(resume, requirements)
    IN  IF Len(p.allRequirements) = 0 THEN <<100, <<>>, <<>> >>
        ELSE <<Min(roundPercent(Len(p.matched), Len(p.allRequirements)), 100),
               p.matched, p.missing>>

\* A variant that gives the empty requirement list the score 0.
analyzeKeywordsNoEmptyCase(resume, requirements) ==
    LET p == partitionRequirements(resume, requirements)
    IN  IF Len(p.allRequirements) = 0 THEN <<0, p.matched, slice0(p.missing, 10)>>
        ELSE <<Min(roundPercent(Len(p.matched), Len(p.allRequirements)), 100),
               p.matched, slice0(p.missing, 10)>>

\* Returns <<score, matched, missing>>.
analyzeKeywords(resume, requirements) ==
    LET p == partitionRequirements(resume, requirements)
    IN  IF Len(p.allRequirements) = 0 THEN <<100, <<>>, <<>> >>
        ELSE <<Min(roundPercent(Len(p.matched), Len(p.allRequirements)), 100),
               p.matched, slice0(p.missing, 10)>>

expectedSections == <<"experience", "education", "skills">>

analyzeStructure(resume) ==
    LET Found(s) == arrayIncludes(resume.sections, s)
        foundSections == Len(filter(expectedSections, Found))
        \* the score in thirds: (foundSections / 3) * 70, + 15, + 15
        thirds == 70 * foundSections
                    + (IF arrayIncludes(resume.sections, "contacts") THEN 3 * 15 ELSE 0)
                    + (IF Len(split(resume.rawText, NewLine)) > 5 THEN 3 * 15 ELSE 0)
    IN  Min(RoundDiv(thirds, Len(expectedSections)), 100)

\* A variant that gives the name the weight of the other two fields.
analyzeContactsEqualWeights(resume) ==
    Min((IF Truthy(resume.email) THEN 40 ELSE 0)
          + (IF Truthy(resume.phone) THEN 40 ELSE 0)
          + (IF Truthy(resume.name) THEN 40 ELSE 0), 100)

analyzeContacts(resume) ==
    Min((IF Truthy(resume.email) THEN 40 ELSE 0)
          + (IF Truthy(resume.phone) THEN 40 ELSE 0)
          + (IF Truthy(resume.name) THEN 20 ELSE 0), 100)

\* A variant whose length thresholds include the limits (>= for >).
analyzeExperienceInclusive(resumeArg, requirementsArg) ==
    IF resumeArg.experience = <<>> THEN 0
    ELSE LET experienceLower == toLowerCase(resumeArg.experience)
             Relevant(skill) == includes(experienceLower, toLowerCase(skill))
             relevantSkills == filter(requirementsArg.technicalSkills, Relevant)
             detail == IF Len(resumeArg.experience) >= 200 THEN 30
                       ELSE IF Len(resumeArg.experience) >= 100 THEN 20
                       ELSE IF Len(resumeArg.experience) >= 50 THEN 10
                       ELSE 0
             relevance == IF Len(relevantSkills) > 0
                          THEN Min(Len(relevantSkills) * 5, 30) ELSE 0
         IN  Min(40 + detail + relevance, 100)

analyzeExperience(resume, requirements) ==
    IF resume.experience = <<>> THEN 0
    ELSE LET experienceLower == toLowerCase(resume.experience)
             Relevant(skill) == includes(experienceLower, toLowerCase(skill))
             relevantSkills == filter(requirements.technicalSkills, Relevant)
             detail == IF Len(resume.experience) > 200 THEN 30
                       ELSE IF Len(resume.experience) > 100 THEN 20
                       ELSE IF Len(resume.experience) > 50 THEN 10
                       ELSE 0
             relevance == IF Len(relevantSkills) > 0
                          THEN Min(Len(relevantSkills) * 5, 30) ELSE 0
         IN  Min(40 + detail + relevance, 100)

(***************************************************************************)
(* A recommendation keeps its type, a tag for its fixed title and the      *)
(* values interpolated into its description and example.                   *)
(***************************************************************************)
Recommendation(type, title, description, example) ==
    [type |-> type, title |-> title, description |-> description, example |-> example]

CommaSpace == Lat(", ")

\* Rule 1, the keyword recommendation.
keywordRecommendation(breakdown, missingKeywords) ==
    IF breakdown.keywords < 70 /\ Len(missingKeywords) > 0
    THEN <<Recommendation("critical", "keywords", Len(missingKeywords),
                          join(slice0(missingKeywords, 5), CommaSpace))>>
    ELSE <<>>

\* Rule 2, the structure recommendation.
structureRecommendation(breakdown, resume) ==
    LET Absent(s) == ~arrayIncludes(resume.sections, s)
        missingSections ==
            (IF Absent("experience") THEN <<Cyr("opyt raboty")>> ELSE <<>>)
              \o (IF Absent("education") THEN <<Cyr("obrazovanie")>> ELSE <<>>)
              \o (IF Absent("skills") THEN <<Cyr("navyki")>> ELSE <<>>)
    IN  IF breakdown.structure < 70 /\ Len(missingSections) > 0
        THEN <<Recommendation("warning", "sections", join(missingSections, CommaSpace), <<>>)>>
        ELSE <<>>

\* A variant of rule 3 that also fires at contacts = 80.
contactsRecommendationInclusive(breakdown, resume) ==
    LET missingContacts ==
            (IF ~Truthy(resume.email) THEN <<Lat("email")>> ELSE <<>>)
              \o (IF ~Truthy(resume.phone) THEN <<Cyr("telefon")>> ELSE <<>>)
              \o (IF ~Truthy(resume.name)
                  THEN <<Cap(Cyr("f")) \o Cap(Cyr("i")) \o Cap(Cyr("o"))>> ELSE <<>>)
    IN  IF breakdown.contacts <= 80 /\ Len(missingContacts) > 0
        THEN <<Recommendation("critical", "contacts", join(missingContacts, CommaSpace), <<>>)>>
        ELSE <<>>

\* Rule 3, the contacts recommendation.
contactsRecommendation(breakdown, resume) ==
    LET missingContacts ==
            (IF ~Truthy(resume.email) THEN <<Lat("email")>> ELSE <<>>)
              \o (IF ~Truthy(resume.phone) THEN <<Cyr("telefon")>> ELSE <<>>)
              \o (IF ~Truthy(resume.name)
                  THEN <<Cap(Cyr("f")) \o Cap(Cyr("i")) \o Cap(Cyr("o"))>> ELSE <<>>)
    IN  IF breakdown.contacts < 80 /\ Len(missingContacts) > 0
        THEN <<Recommendation("critical", "contacts", join(missingContacts, CommaSpace), <<>>)>>
        ELSE <<>>

\* A variant of rule 4 without the branch for the empty experience text.
experienceRecommendationNoWarning(breakdown, resume) ==
    IF breakdown.experience < 60 /\ resume.experience # <<>> /\ Len(resume.experience) < 100
    THEN <<Recommendation("improvement", "expand experience", <<>>, <<>>)>>
    ELSE <<>>

\* Rule 4, the experience recommendation.
experienceRecommendation(breakdown, resume) ==
    IF breakdown.experience < 60
    THEN IF resume.experience = <<>>
         THEN <<Recommendation("warning", "describe experience", <<>>, <<>>)>>
         ELSE IF Len(resume.experience) < 100
         THEN <<Recommendation("improvement", "expand experience", <<>>, <<>>)>>
         ELSE <<>>
    ELSE <<>>

\* Rule 5, the affirmation.
wellOptimized == Recommendation("improvement", "well optimized", <<>>, <<>>)

\* A variant that returns right after rule 3.
generateRecommendationsEarlyReturn(breakdown, resume, requirements, matchedKeywords, missingKeywords) ==
    keywordRecommendation(breakdown, missingKeywords)
      \o structureRecommendation(breakdown, resume)
      \o contactsRecommendation(breakdown, resume)

\* A variant in which a rule that fires keeps the later rules from being tried.
generateRecommendationsExclusive(breakdown, resume, requirements, matchedKeywords, missingKeywords) ==
    LET first == keywordRecommendation(breakdown, missingKeywords)
        second == structureRecommendation(breakdown, resume)
        third == contactsRecommendation(breakdown, resume)
        fourth == experienceRecommendation(breakdown, resume)
    IN  IF first # <<>> THEN first
        ELSE IF second # <<>> THEN second
        ELSE IF third # <<>> THEN third
        ELSE IF fourth # <<>> THEN fourth
        ELSE <<wellOptimized>>

generateRecommendations(breakdown, resume, requirements, matchedKeywords, missingKeywords) ==
    LET recommendations == keywordRecommendation(breakdown, missingKeywords)
                             \o structureRecommendation(breakdown, resume)
                             \o contactsRecommendation(breakdown, resume)
                             \o experienceRecommendation(breakdown, resume)
    IN  IF Len(recommendations) = 0 THEN <<wellOptimized>> ELSE recommendations

analyzeResume(this, resumeTextArg, vacancyTextArg) ==
    LET parsedResume == parseResume(this, resumeTextArg)
        vacancyRequirements == extractVacancyRequirements(this, vacancyTextArg)
        keywordsResult == analyzeKeywords(parsedResume, vacancyRequirements)
        matchedKeywords == keywordsResult[2]
        missingKeywords == keywordsResult[3]
        breakdown == [keywords   |-> keywordsResult[1],
                      structure  |-> analyzeStructure(parsedResume),
                      contacts   |-> analyzeContacts(parsedResume),
                      experience |-> analyzeExperience(parsedResume, vacancyRequirements)]
        totalScore == roundWeighted(breakdown, this.weights)
    IN  [score           |-> totalScore,
         breakdown       |-> breakdown,
         recommendations |-> generateRecommendations(breakdown, parsedResume,
                                 vacancyRequirements, matchedKeywords, missingKeywords),
         parsedResume    |-> parsedResume,
         matchedKeywords |-> matchedKeywords,
         missingKeywords |-> missingKeywords]

(***************************************************************************)
(* Inputs.  A text is a choice of lines, in the order of the list, joined  *)
(* by newlines.                                                            *)
(***************************************************************************)
MaxResumeLines == 6
MaxVacancyLines == 3

ResumeLines ==
  <<Cap(Cyr("i")) \o Cyr("van ") \o Cap(Cyr("i")) \o Cyr("vanov"),
    Lat("ivan@mail.ru"),
    Lat("+7 900 123 45 67"),
    Cap(Cyr("o")) \o Cyr("pyt raboty: 3 goda ") \o Lat("Python ") \o Cyr("razrabotki, ") \o Lat("Docker, Git"),
    Cap(Cyr("o")) \o Cyr("brazovanie: ") \o Cap(Cyr("m")) \o Cap(Cyr("g")) \o Cap(Cyr("u")),
    Cap(Cyr("n")) \o Cyr("avyki: ") \o Lat("python, docker, git, javascript, typescript, react, postgresql, mysql, mongodb, django, redis, kubernetes, linux, nginx, html, css, aws, azure, php, rust, ") \o Cyr("liderstvo"),
    Cap(Cyr("k")) \o Cyr("ontakty: ") \o Cap(Cyr("m")) \o Cyr("oskva")>>

VacancyLines ==
  <<Cap(Cyr("i")) \o Cyr("Wem ") \o Lat("Python ") \o Cyr("razrabotCika s opytom ") \o Lat("Docker ") \o Cyr("i ") \o Lat("Git"),
    Cap(Cyr("n")) \o Cyr("ujen opyt i liderstvo, cenim liderstvo"),
    Cap(Cyr("s")) \o Cyr("tek: ") \o Lat("python, java, javascript, react, angular, vue, express, django, flask, spring, hibernate, sql, postgresql, mysql, mongodb, redis, docker, kubernetes, aws, azure, git, jenkins, html, css, typescript, php, laravel, symfony, go, rust, scala, kotlin, swift, flutter, android, ios, linux, windows, nginx, apache"),
    Cap(Cyr("p")) \o Cyr("riglawaem v ") \o Lat("team, ") \o Cyr("my ") \o Lat("team")>>

\* The chosen lines, in list order.
Pick(lines, S) ==
    LET idx == SelectSeq([i \in 1..Len(lines) |-> i], LAMBDA i : i \in S)
    IN  [k \in 1..Len(idx) |-> lines[idx[k]]]

TextsOf(lines, maxLines) ==
    {join(Pick(lines, S), <<NewLine>>) :
        S \in {T \in SUBSET (1..Len(lines)) : T # {} /\ Cardinality(T) <= maxLines}}

Resumes == TextsOf(ResumeLines, MaxResumeLines)
Vacancies == TextsOf(VacancyLines, MaxVacancyLines)

NumInstances == 2
Instances == 1..NumInstances

NoResult == [score |-> -1]

\* No request received and no response sent.
NoRequest == [contentType |-> undefined, payload |-> [kind |-> "none"]]
NoResponse == [status |-> 0]

\* No upload request has been received; the page has not been rendered.
NoUpload == [pc |-> "none"]
NoPage == [pc |-> "none"]

\* A completed call as the caller saw it.
CallRecord(a, r, v, res) == [self |-> a, resumeText |-> r, vacancyText |-> v, result |-> res]

(***************************************************************************)
(* The engine called once: new SimpleATSAnalyzer().analyzeResume(r, v).    *)
(***************************************************************************)
Init ==
    /\ analyzers = [a \in Instances |-> NewAnalyzer]
    /\ self = 1
    /\ resumeText \in Resumes
    /\ vacancyText \in Vacancies
    /\ result = NoResult
    /\ log = <<>>
    /\ experienceArgs = undefined
    /\ experienceScore = undefined
    /\ request = NoRequest
    /\ response = NoResponse
    /\ frames = <<>>
    /\ blocks = undefined
    /\ recommendationCall = undefined
    /\ extracted = undefined
    /\ upload = NoUpload
    /\ page = NoPage

\* A variant that keeps in the instance's skill table only the skills it found in the
\* vacancy.
AnalyzeResumeCallFiltering(a, r, v) ==
    /\ self' = a
    /\ resumeText' = r
    /\ vacancyText' = v
    /\ result' = analyzeResume(analyzers[a], r, v)
    /\ log' = Append(log, CallRecord(a, r, v, result'))
    /\ analyzers' = [analyzers EXCEPT
                       ![a].itSkills = extractVacancyRequirements(analyzers[a], v).technicalSkills]
    /\ UNCHANGED <<experienceArgs, experienceScore, request, response, frames, blocks, recommendationCall, extracted, upload, page>>

\* A call analyzers[a].analyzeResume(r, v): it reads the fields of the instance and
\* writes none of them; the caller receives the result.
AnalyzeResumeCall(a, r, v) ==
    /\ self' = a
    /\ resumeText' = r
    /\ vacancyText' = v
    /\ result' = analyzeResume(analyzers[a], r, v)
    /\ log' = Append(log, CallRecord(a, r, v, result'))
    /\ UNCHANGED <<analyzers, experienceArgs, experienceScore, request, response, frames,
                   blocks, recommendationCall, extracted, upload, page>>

AnalyzeResume ==
    /\ result = NoResult
    /\ AnalyzeResumeCall(self, resumeText, vacancyText)

Next == AnalyzeResume

Spec == Init /\ [][Next]_vars

Done == result # NoResult

(***************************************************************************)
(* Properties of a completed analysis.                                     *)
(***************************************************************************)
Dimensions == {"keywords", "structure", "contacts", "experience"}

\* C1: for every pair of texts the overall score is an integer in 0..100 and so is each
\* of the four breakdown values.
ScoreBounds ==
    Done => /\ result.score \in 0..100
            /\ \A d \in Dimensions : result.breakdown[d] \in 0..100

\* An analysis whose keyword and contact scores reach the upper bound.
ScoreBoundsWitness ==
    /\ Done
    /\ result.breakdown.keywords = 100
    /\ result.breakdown.contacts = 100
    /\ result.score > 0

\* C2: the list of recommendations of every analysis has at least one entry.
RecommendationsNonEmpty ==
    Done => Len(result.recommendations) >= 1

\* An analysis with no keyword, structure or contact finding: its list has one entry.
RecommendationsNonEmptyWitness ==
    /\ Done
    /\ result.breakdown.keywords >= 70
    /\ result.breakdown.structure >= 70
    /\ result.breakdown.contacts >= 80
    /\ Len(result.recommendations) = 1

\* The requirement list of the vacancy and the part of it the resume does not contain,
\* stated on the input texts.
RequirementList(v) ==
    LET requirements == extractVacancyRequirements(NewAnalyzer, v)
    IN  requirements.technicalSkills \o requirements.softSkills \o requirements.keywords

InResume(r, requirement) ==
    includes(toLowerCase(normalizeText(r)), toLowerCase(requirement))

Unmatched(r, v) ==
    LET NotInResume(requirement) == ~InResume(r, requirement)
    IN  SelectSeq(RequirementList(v), NotInResume)

\* C3: missingKeywords has at most 10 entries and is the first 10, in requirement-list
\* order, of the unmatched requirements.
MissingCap ==
    Done => LET unmatched == Unmatched(resumeText, vacancyText)
            IN  /\ Len(result.missingKeywords) <= 10
                /\ result.missingKeywords = SubSeq(unmatched, 1, Min(10, Len(unmatched)))

\* An analysis with more than 10 unmatched requirements.
MissingCapWitness ==
    /\ Done
    /\ Len(Unmatched(resumeText, vacancyText)) > 10
    /\ Len(result.missingKeywords) = 10

\* No term of either skill vocabulary occurs in the text.
NoVocabularyTerm(v) ==
    \A i \in 1..Len(itSkills) + Len(softSkills) :
        ~includes(toLowerCase(v), (itSkills \o softSkills)[i])

\* No run of 3 or more Cyrillic letters of the lower-cased text occurs a second time.
NoRepeatedWord(v) ==
    LET t == toLowerCase(v)
        IsStart(i) == IsCyrLower(t[i]) /\ (i = 1 \/ ~IsCyrLower(t[i - 1]))
        WordAt(i) == SubSeq(t, i, RunEnd(t, i, IsCyrLower))
    IN  \A i \in 1..Len(t) :
            IsStart(i) /\ Len(WordAt(i)) >= 3 =>
                \A j \in (i + 1)..Len(t) : IsStart(j) => WordAt(j) # WordAt(i)

\* C4: a vacancy without vocabulary term and without repeated Cyrillic word of 3 or more
\* letters gives keywords = 100 and empty matched and missing lists, whatever the resume.
VacuousMatch ==
    Done /\ NoVocabularyTerm(vacancyText) /\ NoRepeatedWord(vacancyText) =>
        /\ result.breakdown.keywords = 100
        /\ result.matchedKeywords = <<>>
        /\ result.missingKeywords = <<>>

\* An analysis of such a vacancy.
VacuousMatchWitness ==
    /\ Done
    /\ NoVocabularyTerm(vacancyText)
    /\ NoRepeatedWord(vacancyText)
    /\ result.breakdown.keywords = 100

\* The weighted sum of a breakdown in hundredths, with the weights 0.40, 0.30, 0.15, 0.15.
WeightedSum(b) == 40 * b.keywords + 30 * b.structure + 15 * b.contacts + 15 * b.experience

\* C6: the overall score is the weighted sum of the four breakdown values of the same
\* result, rounded to the nearest integer; the weights are 0.40, 0.30, 0.15, 0.15 and sum
\* to 1.
WeightedScore ==
    Done => LET w == analyzers[self].weights
            IN  /\ w = [keywords |-> 40, structure |-> 30, contacts |-> 15, experience |-> 15]
                /\ w.keywords + w.structure + w.contacts + w.experience = 100
                /\ 100 * result.score - 50 <= WeightedSum(result.breakdown)
                /\ WeightedSum(result.breakdown) < 100 * result.score + 50

\* An analysis whose weighted sum is rounded upwards.
WeightedScoreWitness ==
    /\ Done
    /\ WeightedSum(result.breakdown) % 100 >= 50
    /\ 100 * result.score > WeightedSum(result.breakdown)

\* C8: contacts is 40 for a detected email plus 40 for a detected phone plus 20 for a
\* detected name, hence one of 0, 20, 40, 60, 80, 100, and 100 exactly when all three
\* are detected.
ContactsAdditive ==
    Done => LET p == result.parsedResume
                email == IF p.email # undefined THEN 1 ELSE 0
                phone == IF p.phone # undefined THEN 1 ELSE 0
                name == IF p.name # undefined THEN 1 ELSE 0
            IN  /\ result.breakdown.contacts = 40 * email + 40 * phone + 20 * name
                /\ result.breakdown.contacts \in {0, 20, 40, 60, 80, 100}
                /\ result.breakdown.contacts = 100 <=> email + phone + name = 3

\* An analysis of a resume with name, email and phone.
ContactsAdditiveWitness ==
    /\ Done
    /\ result.parsedResume.name # undefined
    /\ result.parsedResume.email # undefined
    /\ result.parsedResume.phone # undefined
    /\ result.breakdown.contacts = 100

\* C7: with a non-empty requirement list, keywords = min(round(100 * matched / total), 100)
\* over the list that is not deduplicated, and matchedKeywords lists every matched entry,
\* a term of two source lists twice.
KeywordCoverage ==
    Done /\ Len(RequirementList(vacancyText)) > 0 =>
        LET all == RequirementList(vacancyText)
            IsInResume(requirement) == InResume(resumeText, requirement)
            matched == SelectSeq(all, IsInResume)
        IN  /\ result.matchedKeywords = matched
            /\ result.breakdown.keywords = Min(RoundDiv(100 * Len(matched), Len(all)), 100)

\* The number of lines of a text.
LineCount(text) == Len(split(text, NewLine))

\* C9: structure = min(round(70 * found / 3 + 15 * [contacts in sections]
\* + 15 * [the resume has more than 5 lines]), 100), found counting experience, education
\* and skills among the sections.
StructureFormula ==
    Done =>
        LET sections == result.parsedResume.sections
            found == Cardinality({s \in {"experience", "education", "skills"} :
                                    arrayIncludes(sections, s)})
            contacts == IF arrayIncludes(sections, "contacts") THEN 1 ELSE 0
            manyLines == IF LineCount(resumeText) > 5 THEN 1 ELSE 0
        IN  result.breakdown.structure
              = Min(RoundDiv(70 * found + 3 * 15 * contacts + 3 * 15 * manyLines, 3), 100)

(***************************************************************************)
(* The engine called repeatedly, on any instance, in any order.            *)
(***************************************************************************)
MaxCalls == 3

CallResumes == {ResumeLines[4], join(SubSeq(ResumeLines, 1, 4), <<NewLine>>)}
CallVacancies == {VacancyLines[1], VacancyLines[2]}

InitCalls ==
    /\ analyzers = [a \in Instances |-> NewAnalyzer]
    /\ self = 1
    /\ resumeText = <<>>
    /\ vacancyText = <<>>
    /\ result = NoResult
    /\ log = <<>>
    /\ experienceArgs = undefined
    /\ experienceScore = undefined
    /\ request = NoRequest
    /\ response = NoResponse
    /\ frames = <<>>
    /\ blocks = undefined
    /\ recommendationCall = undefined
    /\ extracted = undefined
    /\ upload = NoUpload
    /\ page = NoPage

NextCalls ==
    \E a \in Instances, r \in CallResumes, v \in CallVacancies :
        Len(log) < MaxCalls /\ AnalyzeResumeCall(a, r, v)

SpecCalls == InitCalls /\ [][NextCalls]_vars

SameInput(c, d) == c.resumeText = d.resumeText /\ c.vacancyText = d.vacancyText

\* C5: two calls with the same resume and vacancy text return the same result, on the
\* same or on different instances and whatever calls come before or between them.
Deterministic ==
    \A i, j \in 1..Len(log) : SameInput(log[i], log[j]) => log[i].result = log[j].result

\* The same input analysed on two instances, with a call on another input in between.
DeterministicWitness ==
    /\ Len(log) >= 3
    /\ SameInput(log[1], log[3])
    /\ ~SameInput(log[1], log[2])
    /\ log[1].self # log[3].self
    /\ log[2].self = log[3].self
    /\ log[1].result = log[3].result

(***************************************************************************)
(* analyzeExperience called directly.  Within analyzeResume the experience *)
(* text it receives is always empty; here it receives experience texts of  *)
(* every length class.                                                     *)
(***************************************************************************)
MaxMentioned == 7
MaxTechnicalSkills == 7

\* Skills none of which contains another, in vocabulary order.
ExperienceSkills == <<Lat("python"), Lat("redis"), Lat("docker"), Lat("git"),
                      Lat("linux"), Lat("nginx"), Lat("apache"), Lat("kafka")>>

ExperienceLengths == {0, 5, 50, 51, 100, 101, 200, 201}

\* An experience text that names the first m skills, capitalised, and has the length len
\* (or the length of the names if that is more); the empty text for len = 0.
ExperienceText(m, len) ==
    LET names == join([i \in 1..Min(m, Len(ExperienceSkills)) |->
                          <<ExperienceSkills[i][1] - 32>> \o Tail(ExperienceSkills[i])],
                      CommaSpace)
    IN  IF len = 0 THEN <<>>
        ELSE names \o [i \in 1..(len - Len(names)) |-> 1072]

BlankResume == parseResume(NewAnalyzer, <<>>)

InitExperience ==
    /\ analyzers = [a \in Instances |-> NewAnalyzer]
    /\ self = 1
    /\ resumeText = <<>>
    /\ vacancyText = <<>>
    /\ result = NoResult
    /\ log = <<>>
    /\ experienceArgs \in
         {Some([resume |-> [BlankResume EXCEPT !.experience = ExperienceText(m, len)],
                requirements |->
                    [technicalSkills |->
                         SubSeq(ExperienceSkills, 1, Min(n, Len(ExperienceSkills))),
                     softSkills |-> <<>>, keywords |-> <<>>]]) :
            m \in 0..MaxMentioned, len \in ExperienceLengths, n \in 0..MaxTechnicalSkills}
    /\ experienceScore = undefined
    /\ request = NoRequest
    /\ response = NoResponse
    /\ frames = <<>>
    /\ blocks = undefined
    /\ recommendationCall = undefined
    /\ extracted = undefined
    /\ upload = NoUpload
    /\ page = NoPage

AnalyzeExperience ==
    /\ experienceScore = undefined
    /\ experienceScore' = Some(analyzeExperience(experienceArgs[1].resume,
                                                 experienceArgs[1].requirements))
    /\ UNCHANGED <<analyzers, self, resumeText, vacancyText, result, log, experienceArgs,
                   request, response, frames, blocks, recommendationCall, extracted, upload, page>>

NextExperience == AnalyzeExperience

SpecExperience == InitExperience /\ [][NextExperience]_vars

\* The number of required technical skills that occur in a text, whatever the case.
RelevantCount(text, skills) ==
    Cardinality({i \in 1..Len(skills) : includes(toLowerCase(text), toLowerCase(skills[i]))})

\* C10: experience is 0 for an empty experience text and otherwise min(40 + L + R, 100),
\* L being 30, 20, 10 or 0 for a text of more than 200, more than 100, more than 50 or
\* fewer characters and R being min(5 * number of required technical skills in the
\* text, 30).
ExperienceFormula ==
    experienceScore # undefined =>
        LET text == experienceArgs[1].resume.experience
            L == IF Len(text) > 200 THEN 30
                 ELSE IF Len(text) > 100 THEN 20
                 ELSE IF Len(text) > 50 THEN 10
                 ELSE 0
            R == Min(5 * RelevantCount(text, experienceArgs[1].requirements.technicalSkills),
                     30)
        IN  experienceScore[1] = IF text = <<>> THEN 0 ELSE Min(40 + L + R, 100)

\* A text of exactly 101 characters that names 3 required skills.
ExperienceFormulaWitness ==
    /\ experienceScore # undefined
    /\ Len(experienceArgs[1].resume.experience) = 101
    /\ RelevantCount(experienceArgs[1].resume.experience,
                     experienceArgs[1].requirements.technicalSkills) = 3
    /\ experienceScore[1] = 75

(***************************************************************************)
(* The analysis of a resume of four lines against a one-line vacancy.      *)
(***************************************************************************)
ExampleResume ==
    Cap(Cyr("i")) \o Cyr("van ") \o Cap(Cyr("i")) \o Cyr("vanov") \o <<NewLine>>
      \o Lat("ivan@mail.ru") \o <<NewLine>>
      \o Lat("+7 900 123 45 67") \o <<NewLine>>
      \o Cap(Cyr("o")) \o Cyr("pyt raboty: 3 goda ") \o Lat("Python ")
      \o Cyr("razrabotki, ") \o Lat("Docker, Git")

ExampleVacancy ==
    Cap(Cyr("i")) \o Cyr("Wem ") \o Lat("Python ") \o Cyr("razrabotCika s opytom ")
      \o Lat("Docker ") \o Cyr("i ") \o Lat("Git")

\* C11: for the example resume and vacancy the analysis returns the name and the email of
\* the resume, matchedKeywords with python, docker and git, contacts = 100 and
\* score >= 60.
ExampleAnalysis ==
    Done /\ resumeText = ExampleResume /\ vacancyText = ExampleVacancy =>
        /\ result.parsedResume.name
             = Some(Cap(Cyr("i")) \o Cyr("van ") \o Cap(Cyr("i")) \o Cyr("vanov"))
        /\ result.parsedResume.email = Some(Lat("ivan@mail.ru"))
        /\ \A skill \in {Lat("python"), Lat("docker"), Lat("git")} :
               arrayIncludes(result.matchedKeywords, skill)
        /\ result.breakdown.contacts = 100
        /\ result.score >= 60

\* The example analysed: its score is 62.
ExampleAnalysisWitness ==
    /\ Done
    /\ resumeText = ExampleResume
    /\ vacancyText = ExampleVacancy
    /\ result.score = 62

(***************************************************************************)
(* The HTTP handlers of the analyze route.  A request carries its          *)
(* content-type header and a payload: what request.json() or               *)
(* request.formData() makes of its body.                                   *)
(***************************************************************************)
\* The values of a field of a JSON body.
JsonUndefined == [kind |-> "undefined", text |-> <<>>, n |-> 0]
JsonString(t) == [kind |-> "string", text |-> t, n |-> 0]
JsonNumber(n) == [kind |-> "number", text |-> <<>>, n |-> n]

\* The values of formData.get(name): null, a string or a File.
FormNull == [kind |-> "null", text |-> <<>>, size |-> 0, type |-> "", name |-> <<>>]
FormString(t) == [kind |-> "string", text |-> t, size |-> 0, type |-> "", name |-> <<>>]
FormFile(size, type, name, content) ==
    [kind |-> "file", text |-> content, size |-> size, type |-> type, name |-> name]

\* !value
IsFalsy(value) ==
    \/ value.kind \in {"undefined", "null"}
    \/ value.kind = "string" /\ value.text = <<>>
    \/ value.kind = "number" /\ value.n = 0

JsonBody(kind, resumeTextField, vacancyTextField) ==
    [kind |-> kind, resumeText |-> resumeTextField, vacancyText |-> vacancyTextField,
     resume |-> FormNull, vacancy |-> FormNull, vacancyTextEntry |-> FormNull]

FormData(resumeFile, vacancyFile, vacancyTextFromForm) ==
    [kind |-> "form", resumeText |-> JsonUndefined, vacancyText |-> JsonUndefined,
     resume |-> resumeFile, vacancy |-> vacancyFile, vacancyTextEntry |-> vacancyTextFromForm]

MAX_FILE_SIZE == 5 * 1024 * 1024

\* How far a handler got before the analysis: an error status, or the two texts.
Reply(status) == [status |-> status, resumeText |-> <<>>, vacancyText |-> <<>>]
Texts(r, v) == [status |-> 200, resumeText |-> r, vacancyText |-> v]

endsWith(s, suffix) ==
    Len(s) >= Len(suffix) /\ SubSeq(s, Len(s) - Len(suffix) + 1, Len(s)) = suffix

\* The JSON branch: request.json() rejects for a body that is no JSON, reading a field of
\* null and calling trim on a value that is no string throw; the catch answers 500.
jsonBranch(payload) ==
    IF payload.kind \notin {"null", "object"} THEN Reply(500)
    ELSE IF payload.kind = "null" THEN Reply(500)
    ELSE IF IsFalsy(payload.resumeText) \/ IsFalsy(payload.vacancyText) THEN Reply(400)
    ELSE IF payload.resumeText.kind # "string" \/ payload.vacancyText.kind # "string"
    THEN Reply(500)
    ELSE Texts(trim(payload.resumeText.text), trim(payload.vacancyText.text))

\* BrowserFileParser.parseFile of a file the handler has let through: its text, or
\* undefined where it throws.
browserParseFile(file) ==
    IF file.size > MAX_FILE_SIZE THEN undefined
    ELSE IF file.type = "text/plain" THEN Some(file.text)
    ELSE undefined

\* The FormData branch with two files.
filesBranch(payload) ==
    LET resumeFile == payload.resume
        vacancyFile == payload.vacancy
        TooBig(file) == file.kind = "file" /\ file.size > MAX_FILE_SIZE
        Allowed(file) == file.kind = "file" /\ file.type \in {"text/plain"}
    IN  IF payload.kind # "form" THEN Reply(500)
        ELSE IF IsFalsy(resumeFile) \/ IsFalsy(vacancyFile) THEN Reply(400)
        ELSE IF TooBig(resumeFile) \/ TooBig(vacancyFile) THEN Reply(400)
        ELSE IF ~Allowed(resumeFile) \/ ~Allowed(vacancyFile) THEN Reply(400)
        ELSE IF browserParseFile(resumeFile) = undefined \/ browserParseFile(vacancyFile) = undefined
        THEN Reply(400)
        ELSE Texts(browserParseFile(resumeFile)[1], browserParseFile(vacancyFile)[1])

allowedTypes ==
    {"text/plain", "application/pdf", "application/msword",
     "application/vnd.openxmlformats-officedocument.wordprocessingml.document"}

allowedExtensions == {Lat(".txt"), Lat(".pdf"), Lat(".doc"), Lat(".docx")}

\* The FormData branch with a resume file and the vacancy text; parsed is what
\* UniversalFileParser.parseFile resolves to, undefined where it rejects.
mixedBranch(payload, parsed) ==
    LET resumeFile == payload.resume
        vacancyTextFromForm == payload.vacancyTextEntry
    IN  IF payload.kind # "form" THEN Reply(500)
        ELSE IF IsFalsy(resumeFile) THEN Reply(400)
        ELSE IF IsFalsy(vacancyTextFromForm) THEN Reply(400)
        ELSE IF vacancyTextFromForm.kind # "string" THEN Reply(500)
        ELSE IF trim(vacancyTextFromForm.text) = <<>> THEN Reply(400)
        ELSE IF resumeFile.kind = "file" /\ resumeFile.size > MAX_FILE_SIZE THEN Reply(400)
        ELSE IF resumeFile.kind # "file" THEN Reply(500)
        ELSE IF /\ resumeFile.type \notin allowedTypes
                /\ \A ext \in allowedExtensions : ~endsWith(toLowerCase(resumeFile.name), ext)
        THEN Reply(400)
        ELSE IF parsed = undefined THEN Reply(400)
        ELSE Texts(parsed[1], trim(vacancyTextFromForm.text))

\* The checks for empty texts that precede the analysis.
emptyChecks(texts) ==
    IF texts.status # 200 THEN texts
    ELSE IF trim(texts.resumeText) = <<>> THEN Reply(400)
    ELSE IF trim(texts.vacancyText) = <<>> THEN Reply(400)
    ELSE texts

\* contentType?.includes('application/json')
IsJson(contentType) ==
    contentType # undefined /\ includes(contentType[1], Lat("application/json"))

\* The end of each handler: the checks for empty texts, then the analysis on a new
\* analyzer and the response with its result, or the error response.
respond(handler, texts) ==
    LET checked == emptyChecks(texts)
    IN  /\ request # NoRequest
        /\ response = NoResponse
        /\ IF checked.status = 200
           THEN /\ resumeText' = checked.resumeText
                /\ vacancyText' = checked.vacancyText
                /\ result' = analyzeResume(NewAnalyzer, checked.resumeText, checked.vacancyText)
                /\ log' = Append(log, CallRecord(self, checked.resumeText,
                                                 checked.vacancyText, result'))
                /\ response' = [status |-> 200, handler |-> handler]
           ELSE /\ response' = [status |-> checked.status, handler |-> handler]
                /\ UNCHANGED <<resumeText, vacancyText, result, log>>
        /\ UNCHANGED <<analyzers, self, experienceArgs, experienceScore, request, frames,
                       blocks, recommendationCall, extracted, upload, page>>

\* POST of src/app/api/analyze/route.ts: JSON only.
PostJson == respond("json", jsonBranch(request.payload))

\* POST of route.ts: JSON, or two files.
PostFiles ==
    respond("files", IF IsJson(request.contentType) THEN jsonBranch(request.payload)
                     ELSE filesBranch(request.payload))

\* POST of part_002: JSON, or a resume file and the vacancy text.
PostMixed ==
    \E parsed \in {undefined, Some(request.payload.resume.text)} :
        respond("mixed", IF IsJson(request.contentType) THEN jsonBranch(request.payload)
                         ELSE mixedBranch(request.payload, parsed))

\* The requests: JSON bodies that are no JSON, null, or an object whose two fields are
\* absent, empty, blank, a text or a number; forms whose entries are absent, strings or
\* files of either size and several types.
BlankText == <<Space, NewLine, Space>>
Padded(text) == <<Space>> \o text \o <<NewLine>>

Requests ==
    LET Fields(text) ==
            {JsonUndefined, JsonString(<<>>), JsonString(BlankText), JsonString(Padded(text)),
             JsonNumber(5)}
        JsonBodies ==
            {JsonBody("unparsable", JsonUndefined, JsonUndefined),
             JsonBody("null", JsonUndefined, JsonUndefined)}
              \cup {JsonBody("object", r, v) :
                      r \in Fields(ExampleResume), v \in Fields(ExampleVacancy)}
        ResumeEntries ==
            {FormNull, FormString(Lat("cv"))}
              \cup {FormFile(1024, "text/plain", Lat("cv.txt"), content) :
                      content \in {<<>>, BlankText, Padded(ExampleResume)}}
              \cup {FormFile(MAX_FILE_SIZE + 1, "text/plain", Lat("cv.txt"), ExampleResume),
                    FormFile(1024, "image/png", Lat("cv.png"), ExampleResume),
                    FormFile(1024, "application/pdf", Lat("cv.pdf"), ExampleResume),
                    FormFile(1024, "", Lat("CV.TXT"), ExampleResume)}
        VacancyEntries ==
            {FormNull,
             FormFile(1024, "text/plain", Lat("vacancy.txt"), BlankText),
             FormFile(1024, "text/plain", Lat("vacancy.txt"), ExampleVacancy),
             FormFile(MAX_FILE_SIZE + 1, "text/plain", Lat("vacancy.txt"), ExampleVacancy)}
        VacancyTextEntries ==
            {FormNull, FormString(<<>>), FormString(BlankText),
             FormString(Padded(ExampleVacancy)),
             FormFile(1024, "text/plain", Lat("vacancy.txt"), ExampleVacancy)}
        Forms ==
            {FormData(r, v, t) :
               r \in ResumeEntries, v \in VacancyEntries, t \in VacancyTextEntries}
        ContentTypes ==
            {undefined, Some(Lat("application/json")), Some(Lat("multipart/form-data"))}
    IN  [contentType : ContentTypes, payload : JsonBodies \cup Forms]

InitPost ==
    /\ analyzers = [a \in Instances |-> NewAnalyzer]
    /\ self = 1
    /\ resumeText = <<>>
    /\ vacancyText = <<>>
    /\ result = NoResult
    /\ log = <<>>
    /\ experienceArgs = undefined
    /\ experienceScore = undefined
    /\ request \in Requests
    /\ response = NoResponse
    /\ frames = <<>>
    /\ blocks = undefined
    /\ recommendationCall = undefined
    /\ extracted = undefined
    /\ upload = NoUpload
    /\ page = NoPage

NextPost == PostJson \/ PostFiles \/ PostMixed

SpecPost == InitPost /\ [][NextPost]_vars

\* The resume text or the vacancy text of the request is missing, empty or blank, for
\* the handler that answered and the part of the request it reads.
MissingField(value) ==
    value.kind = "undefined" \/ (value.kind = "string" /\ trim(value.text) = <<>>)

MissingEntry(entry) ==
    entry.kind = "null" \/ (entry.kind \in {"string", "file"} /\ trim(entry.text) = <<>>)

ReadsJson == response.handler = "json" \/ IsJson(request.contentType)

TextMissing ==
    LET payload == request.payload
    IN  IF ReadsJson
        THEN \/ payload.kind = "null"
             \/ /\ payload.kind = "object"
                /\ MissingField(payload.resumeText) \/ MissingField(payload.vacancyText)
        ELSE /\ payload.kind = "form"
             /\ \/ payload.resume.kind = "null"
                \/ payload.resume.kind = "file" /\ trim(payload.resume.text) = <<>>
                \/ IF response.handler = "files" THEN MissingEntry(payload.vacancy)
                   ELSE MissingEntry(payload.vacancyTextEntry)

\* C12: a handler calls analyzeResume only with a resume text and a vacancy text that are
\* not empty after trimming, and it answers a request whose resume text or vacancy text
\* is missing, empty or blank with status 400 without calling analyzeResume.
ValidationGate ==
    response # NoResponse =>
        /\ \A i \in 1..Len(log) :
               trim(log[i].resumeText) # <<>> /\ trim(log[i].vacancyText) # <<>>
        /\ TextMissing => response.status = 400 /\ log = <<>>

(***************************************************************************)
(* The shape of the values an analysis returns.                            *)
(***************************************************************************)
IsText(s) == DOMAIN s = 1..Len(s) /\ \A k \in 1..Len(s) : s[k] \in Nat
IsOptionalText(v) == v = undefined \/ (Len(v) = 1 /\ IsText(v[1]))
IsTextList(list) == DOMAIN list = 1..Len(list) /\ \A k \in 1..Len(list) : IsText(list[k])

\* No keyword of any section, and no position keyword, occurs in the text.
NoSectionKeyword(text) ==
    \A type \in DOMAIN standardSections : \A i \in 1..Len(standardSections[type]) :
        ~includes(toLowerCase(text), standardSections[type][i])

NoPositionKeyword(text) ==
    \A i \in 1..Len(positionKeywords) : ~includes(toLowerCase(text), positionKeywords[i])

\* C13: analyzeResume completes for every pair of non-empty texts with a result of six
\* fields; each extraction step yields a value of its type, and the absent value
\* (undefined, the empty string or the empty list) where nothing matches.
TotalExtraction ==
    Done =>
        LET p == result.parsedResume
            text == normalizeText(resumeText)
        IN  /\ DOMAIN result = {"score", "breakdown", "recommendations", "parsedResume",
                                "matchedKeywords", "missingKeywords"}
            /\ DOMAIN p = {"name", "email", "phone", "position", "skills", "experience",
                           "education", "sections", "rawText"}
            /\ IsOptionalText(p.name) /\ IsOptionalText(p.email)
            /\ IsOptionalText(p.phone) /\ IsOptionalText(p.position)
            /\ IsTextList(p.skills) /\ IsText(p.experience) /\ IsText(p.education)
            /\ \A k \in 1..Len(p.sections) : p.sections[k] \in DOMAIN standardSections
            /\ IsTextList(result.matchedKeywords) /\ IsTextList(result.missingKeywords)
            /\ (text = <<>> \/ ~IsCyrUpper(text[1])) => p.name = undefined
            /\ (\A k \in 1..Len(text) : text[k] # 64) => p.email = undefined
            /\ (\A k \in 1..Len(text) : ~IsDigit(text[k])) => p.phone = undefined
            /\ NoPositionKeyword(text) => p.position = undefined
            /\ NoVocabularyTerm(text) => p.skills = <<>>
            /\ NoSectionKeyword(text) =>
                   p.sections = <<>> /\ p.experience = <<>> /\ p.education = <<>>
            /\ NoVocabularyTerm(vacancyText) /\ NoRepeatedWord(vacancyText) =>
                   result.matchedKeywords = <<>> /\ result.missingKeywords = <<>>

\* An analysis of a resume in which only the telephone pattern matches.
TotalExtractionWitness ==
    /\ Done
    /\ result.parsedResume.name = undefined
    /\ result.parsedResume.email = undefined
    /\ result.parsedResume.phone # undefined
    /\ result.parsedResume.position = undefined
    /\ result.parsedResume.skills = <<>>
    /\ result.parsedResume.sections = <<>>
    /\ result.parsedResume.experience = <<>>
    /\ result.parsedResume.education = <<>>
    /\ Len(result.recommendations) >= 1

(***************************************************************************)
(* Calls of analyzeResume in progress at the same time.  A frame holds the *)
(* arguments and the local constants of one call; a step of a call reads   *)
(* the fields of its instance and writes its own frame.                    *)
(***************************************************************************)
MaxFrames == 2

Frame(a, r, v) ==
    [self |-> a, resumeText |-> r, vacancyText |-> v, pc |-> "parseResume",
     parsedResume |-> NoResult, vacancyRequirements |-> NoResult,
     keywordsResult |-> NoResult, breakdown |-> NoResult, totalScore |-> -1,
     result |-> NoResult]

InitFrames ==
    /\ analyzers = [a \in Instances |-> NewAnalyzer]
    /\ self = 1
    /\ resumeText = <<>>
    /\ vacancyText = <<>>
    /\ result = NoResult
    /\ log = <<>>
    /\ experienceArgs = undefined
    /\ experienceScore = undefined
    /\ request = NoRequest
    /\ response = NoResponse
    /\ frames = <<>>
    /\ blocks = undefined
    /\ recommendationCall = undefined
    /\ extracted = undefined
    /\ upload = NoUpload
    /\ page = NoPage

\* A caller enters analyzeResume.
EnterAnalyzeResume(a, r, v) ==
    /\ Len(frames) < MaxFrames
    /\ frames' = Append(frames, Frame(a, r, v))
    /\ UNCHANGED <<analyzers, self, resumeText, vacancyText, result, log, experienceArgs,
                   experienceScore, request, response, blocks, recommendationCall, extracted, upload, page>>

\* 1: const parsedResume = this.parseResume(resumeText)
StepParseResume(i) ==
    /\ frames[i].pc = "parseResume"
    /\ frames' = [frames EXCEPT
         ![i].parsedResume = parseResume(analyzers[frames[i].self], frames[i].resumeText),
         ![i].pc = "extractVacancyRequirements"]
    /\ UNCHANGED <<analyzers, self, resumeText, vacancyText, result, log, experienceArgs,
                   experienceScore, request, response, blocks, recommendationCall, extracted, upload, page>>

\* A variant of step 2 that keeps the skills it found in the skill table of the instance.
StepVacancyRequirementsCaching(i) ==
    /\ frames[i].pc = "extractVacancyRequirements"
    /\ frames' = [frames EXCEPT
         ![i].vacancyRequirements =
             extractVacancyRequirements(analyzers[frames[i].self], frames[i].vacancyText),
         ![i].pc = "analyze"]
    /\ analyzers' = [analyzers EXCEPT ![frames[i].self].itSkills =
         extractVacancyRequirements(analyzers[frames[i].self],
                                    frames[i].vacancyText).technicalSkills]
    /\ UNCHANGED <<self, resumeText, vacancyText, result, log, experienceArgs,
                   experienceScore, request, response, blocks, recommendationCall, extracted, upload, page>>

\* 2: const vacancyRequirements = this.extractVacancyRequirements(vacancyText)
StepVacancyRequirements(i) ==
    /\ frames[i].pc = "extractVacancyRequirements"
    /\ frames' = [frames EXCEPT
         ![i].vacancyRequirements =
             extractVacancyRequirements(analyzers[frames[i].self], frames[i].vacancyText),
         ![i].pc = "analyze"]
    /\ UNCHANGED <<analyzers, self, resumeText, vacancyText, result, log, experienceArgs,
                   experienceScore, request, response, blocks, recommendationCall, extracted, upload, page>>

\* 3 to 7: the four scores, the breakdown and the total score.
StepAnalyze(i) ==
    LET f == frames[i]
        keywordsResult == analyzeKeywords(f.parsedResume, f.vacancyRequirements)
        breakdown == [keywords   |-> keywordsResult[1],
                      structure  |-> analyzeStructure(f.parsedResume),
                      contacts   |-> analyzeContacts(f.parsedResume),
                      experience |-> analyzeExperience(f.parsedResume, f.vacancyRequirements)]
    IN  /\ f.pc = "analyze"
        /\ frames' = [frames EXCEPT
             ![i].keywordsResult = keywordsResult,
             ![i].breakdown = breakdown,
             ![i].totalScore = roundWeighted(breakdown, analyzers[f.self].weights),
             ![i].pc = "generateRecommendations"]
        /\ UNCHANGED <<analyzers, self, resumeText, vacancyText, result, log,
                       experienceArgs, experienceScore, request, response, blocks, recommendationCall, extracted, upload, page>>

\* 8: the recommendations, and the return of the result.
StepReturn(i) ==
    LET f == frames[i]
    IN  /\ f.pc = "generateRecommendations"
        /\ frames' = [frames EXCEPT
             ![i].result =
                 [score           |-> f.totalScore,
                  breakdown       |-> f.breakdown,
                  recommendations |-> generateRecommendations(f.breakdown, f.parsedResume,
                                          f.vacancyRequirements, f.keywordsResult[2],
                                          f.keywordsResult[3]),
                  parsedResume    |-> f.parsedResume,
                  matchedKeywords |-> f.keywordsResult[2],
                  missingKeywords |-> f.keywordsResult[3]],
             ![i].pc = "done"]
        /\ UNCHANGED <<analyzers, self, resumeText, vacancyText, result, log,
                       experienceArgs, experienceScore, request, response, blocks, recommendationCall, extracted, upload, page>>

NextFrames ==
    \/ \E a \in Instances, r \in {ResumeLines[4]}, v \in CallVacancies :
           EnterAnalyzeResume(a, r, v)
    \/ \E i \in 1..Len(frames) : StepParseResume(i)
    \/ \E i \in 1..Len(frames) : StepVacancyRequirements(i)
    \/ \E i \in 1..Len(frames) : StepAnalyze(i)
    \/ \E i \in 1..Len(frames) : StepReturn(i)

SpecFrames == InitFrames /\ [][NextFrames]_vars

\* C14: however the steps of calls in progress interleave, a call that has returned has
\* the result of the same call on a new analyzer run alone, and the tables and weights
\* of every instance are as constructed.
Isolation ==
    /\ \A a \in Instances : analyzers[a] = NewAnalyzer
    /\ \A i \in 1..Len(frames) :
           frames[i].pc = "done" =>
               frames[i].result
                 = analyzeResume(NewAnalyzer, frames[i].resumeText, frames[i].vacancyText)

\* Two calls on the same instance with different vacancies: the one that entered second
\* has returned while the first is between its steps.
IsolationWitness ==
    /\ Len(frames) = 2
    /\ frames[1].self = frames[2].self
    /\ frames[1].vacancyText # frames[2].vacancyText
    /\ frames[1].pc = "analyze"
    /\ frames[2].pc = "done"
    /\ frames[2].result
         = analyzeResume(NewAnalyzer, frames[2].resumeText, frames[2].vacancyText)

(***************************************************************************)
(* Resumes with headings, plain lines, a blank line and position labels,   *)
(* parsed by analyzeResume.                                                *)
(***************************************************************************)
MaxScanLines == 5

ScanLines ==
  <<Cap(Cyr("i")) \o Cyr("van ") \o Cap(Cyr("i")) \o Cyr("vanov"),
    Cap(Cyr("d")) \o Cyr("oljnostq: ") \o Cap(Cyr("i")) \o Cyr("njener ") \o Lat("Python"),
    Cap(Cyr("p")) \o Cyr("oziciA injener"),
    Cap(Cyr("o")) \o Cyr("pyt raboty"),
    Cap(Cyr("r")) \o Cyr("azrabotka servisov"),
    Lat("   "),
    Cap(Cyr("o")) \o Cyr("pyt i navyki"),
    Cap(Cyr("p")) \o Cyr("odderjka koda"),
    Cap(Cyr("o")) \o Cyr("brazovanie"),
    Cap(Cyr("m")) \o Cap(Cyr("g")) \o Cap(Cyr("u")) \o Cyr(", fizik"),
    Cap(Cyr("o")) \o Cyr("pyt"),
    Cap(Cyr("t")) \o Cyr("estirovanie")>>

ScanTexts == TextsOf(ScanLines, MaxScanLines)

InitParse ==
    /\ analyzers = [a \in Instances |-> NewAnalyzer]
    /\ self = 1
    /\ resumeText \in ScanTexts
    /\ vacancyText = ExampleVacancy
    /\ result = NoResult
    /\ log = <<>>
    /\ experienceArgs = undefined
    /\ experienceScore = undefined
    /\ request = NoRequest
    /\ response = NoResponse
    /\ frames = <<>>
    /\ blocks = undefined
    /\ recommendationCall = undefined
    /\ extracted = undefined
    /\ upload = NoUpload
    /\ page = NoPage

SpecParse == InitParse /\ [][Next]_vars

\* The block of a category read off the lines of a text: the lines after the first line
\* with a keyword of the category (the start line) and before the line at stop that are
\* not blank and have no keyword of the category.
HasKeyword(line, keywords) ==
    \E i \in 1..Len(keywords) : includes(trim(toLowerCase(line)), keywords[i])

HasOwn(line, category) == HasKeyword(line, standardSections[category])

HasOther(line, category) ==
    \E other \in DOMAIN standardSections \ {category} :
        HasKeyword(line, standardSections[other])

StartLine(lines, category) ==
    IF \E k \in 1..Len(lines) : HasOwn(lines[k], category)
    THEN CHOOSE k \in 1..Len(lines) :
             HasOwn(lines[k], category) /\ \A j \in 1..(k - 1) : ~HasOwn(lines[j], category)
    ELSE 0

\* The first line after the start line that stops the scan, Len(lines) + 1 without one.
StopLine(lines, category, Stops(_)) ==
    LET start == StartLine(lines, category)
        stops == {k \in (start + 1)..Len(lines) : Stops(lines[k])}
    IN  IF start = 0 \/ stops = {} THEN Len(lines) + 1 ELSE SetMin(stops)

Block(lines, category, stop) ==
    LET start == StartLine(lines, category)
        Kept(k) == /\ k > start /\ k < stop
                   /\ trim(lines[k]) # <<>>
                   /\ ~HasOwn(lines[k], category)
        kept == SelectSeq([k \in 1..Len(lines) |-> k], Kept)
    IN  IF start = 0 THEN <<>>
        ELSE join([k \in 1..Len(kept) |-> lines[kept[k]]], <<NewLine>>)

\* The block of a category, the scan stopping at the first line after the start line that
\* has a keyword of another category and none of the category itself.
LineBlock(text, category) ==
    LET lines == split(text, NewLine)
        Stops(line) == HasOther(line, category) /\ ~HasOwn(line, category)
    IN  Block(lines, category, StopLine(lines, category, Stops))

\* C15: parsedResume.experience is the block of lines that follow the experience start
\* line of the resume text, and parsedResume.education the block that follows the
\* education start line.
LinePreservingBlocks ==
    Done => /\ result.parsedResume.experience = LineBlock(resumeText, "experience")
            /\ result.parsedResume.education = LineBlock(resumeText, "education")

(***************************************************************************)
(* The block scanners called directly on a text that has its lines.        *)
(***************************************************************************)
InitScan ==
    /\ analyzers = [a \in Instances |-> NewAnalyzer]
    /\ self = 1
    /\ resumeText \in ScanTexts
    /\ vacancyText = <<>>
    /\ result = NoResult
    /\ log = <<>>
    /\ experienceArgs = undefined
    /\ experienceScore = undefined
    /\ request = NoRequest
    /\ response = NoResponse
    /\ frames = <<>>
    /\ blocks = undefined
    /\ recommendationCall = undefined
    /\ extracted = undefined
    /\ upload = NoUpload
    /\ page = NoPage

ExtractSections ==
    /\ blocks = undefined
    /\ blocks' = Some([experience |-> extractExperienceSection(analyzers[self], resumeText),
                       education |-> extractEducationSection(analyzers[self], resumeText)])
    /\ UNCHANGED <<analyzers, self, resumeText, vacancyText, result, log, experienceArgs,
                   experienceScore, request, response, frames, recommendationCall, extracted, upload, page>>

NextScan == ExtractSections

SpecScan == InitScan /\ [][NextScan]_vars

\* The block of a category, the scan stopping at the first line after the start line that
\* has a keyword of another category.
LineBlockAnyOther(text, category) ==
    LET lines == split(text, NewLine)
        Stops(line) == HasOther(line, category)
    IN  Block(lines, category, StopLine(lines, category, Stops))

\* C16 as stated: the scan of a category collects the lines after the start line that
\* are not blank, up to the first line with a keyword of any other category, which it
\* does not collect and after which it collects nothing; without start line the block is
\* empty.
ScanStopsAtAnyOther ==
    blocks # undefined =>
        /\ blocks[1].experience = LineBlockAnyOther(resumeText, "experience")
        /\ blocks[1].education = LineBlockAnyOther(resumeText, "education")

\* C16 amended: the line that ends the scan is the first line after the start line with a
\* keyword of another category and no keyword of the scanned category; a line with a
\* keyword of the scanned category is skipped and the scan goes on.
ScanAutomaton ==
    blocks # undefined =>
        /\ blocks[1].experience = LineBlock(resumeText, "experience")
        /\ blocks[1].education = LineBlock(resumeText, "education")
        /\ StartLine(split(resumeText, NewLine), "experience") = 0 =>
               blocks[1].experience = <<>>
        /\ \A k \in 1..Len(split(resumeText, NewLine)) :
               trim(split(resumeText, NewLine)[k]) = <<>> =>
                   /\ ~arrayIncludes(split(blocks[1].experience, NewLine),
                                     split(resumeText, NewLine)[k])
                   /\ ~arrayIncludes(split(blocks[1].education, NewLine),
                                     split(resumeText, NewLine)[k])

\* A text with an experience heading, a plain line, a blank line, the education heading,
\* and then a second experience heading followed by a plain line: only the first plain
\* line is collected.
ScanAutomatonWitness ==
    /\ blocks # undefined
    /\ resumeText = join(<<ScanLines[4], ScanLines[5], ScanLines[6], ScanLines[9],
                           ScanLines[11]>>, <<NewLine>>)
    /\ blocks[1].experience = ScanLines[5]
    /\ blocks[1].education = <<>>

(***************************************************************************)
(* The position read from a labelled line.                                 *)
(***************************************************************************)
HasColon(line) == \E k \in 1..Len(line) : line[k] = Colon

HasPositionKeyword(line) ==
    \E i \in 1..Len(positionKeywords) :
        includes(trim(toLowerCase(line)), positionKeywords[i])

\* The text of a line after its first colon, trimmed.
AfterFirstColon(line) ==
    LET k == CHOOSE j \in 1..Len(line) :
                 line[j] = Colon /\ \A h \in 1..(j - 1) : line[h] # Colon
    IN  trim(SubSeq(line, k + 1, Len(line)))

\* The position as labelled in the lines of a text: from the first of the first 10 lines
\* that has a position keyword and a colon, or undefined.
LabelledPosition(text) ==
    LET lines == slice0(split(text, NewLine), 10)
        Labelled(k) == HasPositionKeyword(lines[k]) /\ HasColon(lines[k])
    IN  IF \E k \in 1..Len(lines) : Labelled(k)
        THEN LET first == CHOOSE k \in 1..Len(lines) :
                              Labelled(k) /\ \A h \in 1..(k - 1) : ~Labelled(h)
             IN  Some(AfterFirstColon(lines[first]))
        ELSE undefined

\* C17: parsedResume.position is the trimmed text after the first colon of the first of
\* the first 10 lines, as parseResume hands them to the extractor, that has a position
\* keyword and a colon, and undefined when there is no such line.
PositionAfterColon ==
    Done => result.parsedResume.position = LabelledPosition(result.parsedResume.rawText)

(***************************************************************************)
(* generateRecommendations called on breakdowns at the thresholds of its   *)
(* rules, on résumés with and without each section and contact, and on     *)
(* missing lists of every length up to MaxMissing.                         *)
(***************************************************************************)
MaxMissing == 6

InitRecommendations ==
    /\ analyzers = [a \in Instances |-> NewAnalyzer]
    /\ self = 1
    /\ resumeText = <<>>
    /\ vacancyText = <<>>
    /\ result = NoResult
    /\ log = <<>>
    /\ experienceArgs = undefined
    /\ experienceScore = undefined
    /\ request = NoRequest
    /\ response = NoResponse
    /\ frames = <<>>
    /\ blocks = undefined
    /\ LET breakdowns == [keywords : {69, 70}, structure : {69, 70},
                          contacts : {79, 80}, experience : {59, 60}]
           resumes ==
               {[BlankResume EXCEPT
                     !.sections = SelectSeq(<<"experience", "education", "skills">>,
                                            LAMBDA s : s \in present),
                     !.email = IF "email" \in given
                               THEN Some(Lat("ivan@mail.ru")) ELSE undefined,
                     !.phone = IF "phone" \in given
                               THEN Some(Lat("+7 900 123-45-67")) ELSE undefined,
                     !.name = IF "name" \in given THEN Some(ScanLines[1]) ELSE undefined,
                     !.experience = ExperienceText(0, len)] :
                   present \in SUBSET {"experience", "education", "skills"},
                   given \in SUBSET {"email", "phone", "name"},
                   len \in {0, 99, 100}}
       IN  recommendationCall \in
             {Some([breakdown |-> b, resume |-> r,
                    missingKeywords |->
                        SubSeq(ExperienceSkills, 1, Min(n, Len(ExperienceSkills))),
                    returned |-> undefined]) :
                b \in breakdowns, r \in resumes, n \in 0..MaxMissing}
    /\ extracted = undefined
    /\ upload = NoUpload
    /\ page = NoPage

GenerateRecommendations ==
    /\ recommendationCall # undefined
    /\ recommendationCall[1].returned = undefined
    /\ recommendationCall' =
         Some([recommendationCall[1] EXCEPT !.returned =
                  Some(generateRecommendations(
                           recommendationCall[1].breakdown, recommendationCall[1].resume,
                           extractVacancyRequirements(analyzers[self], <<>>), <<>>,
                           recommendationCall[1].missingKeywords))])
    /\ UNCHANGED <<analyzers, self, resumeText, vacancyText, result, log, experienceArgs,
                   experienceScore, request, response, frames, blocks, extracted, upload, page>>

NextRecommendations == GenerateRecommendations

SpecRecommendations == InitRecommendations /\ [][NextRecommendations]_vars

Returned == recommendationCall # undefined /\ recommendationCall[1].returned # undefined

\* The type and the title of each entry of a list of recommendations.
Tags(recommendations) ==
    [k \in 1..Len(recommendations) |-> <<recommendations[k].type, recommendations[k].title>>]

\* The entries that the conditions of rules 1 to 4 call for, in the order of the rules.
Called(breakdown, resume, missingKeywords) ==
    LET Absent(s) == ~arrayIncludes(resume.sections, s)
        keywords == breakdown.keywords < 70 /\ missingKeywords # <<>>
        structure == /\ breakdown.structure < 70
                     /\ Absent("experience") \/ Absent("education") \/ Absent("skills")
        contacts == /\ breakdown.contacts < 80
                    /\ resume.email = undefined \/ resume.phone = undefined
                                                \/ resume.name = undefined
        describe == breakdown.experience < 60 /\ resume.experience = <<>>
        expand == /\ breakdown.experience < 60
                  /\ resume.experience # <<>> /\ Len(resume.experience) < 100
    IN  (IF keywords THEN << <<"critical", "keywords">> >> ELSE <<>>)
          \o (IF structure THEN << <<"warning", "sections">> >> ELSE <<>>)
          \o (IF contacts THEN << <<"critical", "contacts">> >> ELSE <<>>)
          \o (IF describe THEN << <<"warning", "describe experience">> >> ELSE <<>>)
          \o (IF expand THEN << <<"improvement", "expand experience">> >> ELSE <<>>)

\* C18: the list returned holds, in the order of the rules and each at most once, the
\* critical keyword entry iff keywords < 70 and the missing list is not empty, the
\* warning structure entry iff structure < 70 and one of experience, education, skills is
\* absent, the critical contacts entry iff contacts < 80 and one of email, phone, name is
\* absent, and, iff experience < 60, the warning when the experience text is empty or
\* else the improvement when it is shorter than 100; no rule suppresses another.
RuleOrder ==
    Returned =>
        LET call == recommendationCall[1]
            called == Called(call.breakdown, call.resume, call.missingKeywords)
        IN  IF called = <<>> THEN call.returned[1] = <<wellOptimized>>
            ELSE Tags(call.returned[1]) = called

\* All of rules 1 to 4 fire in one call, rule 4 with the improvement.
RuleOrderWitness ==
    /\ Returned
    /\ Tags(recommendationCall[1].returned[1]) =
           << <<"critical", "keywords">>, <<"warning", "sections">>,
              <<"critical", "contacts">>, <<"improvement", "expand experience">> >>

(***************************************************************************)
(* The keyword recommendation and the unmatched requirements.              *)
(***************************************************************************)
\* C19: when the keyword recommendation is emitted, the count it states is the number of
\* all unmatched requirements, which may exceed 10, and its example lists the first 5 of
\* them (all of them if there are fewer) in the order of the requirement list.
KeywordRecommendationCount ==
    Done =>
        \A k \in 1..Len(result.recommendations) :
            result.recommendations[k].title = "keywords" =>
                LET unmatched == Unmatched(resumeText, vacancyText)
                IN  /\ result.recommendations[k].description = Len(unmatched)
                    /\ result.recommendations[k].example =
                           join(slice0(unmatched, 5), CommaSpace)

(***************************************************************************)
(* extractVacancyRequirements called on vacancy texts with words of        *)
(* different and of equal frequency, words that occur once, words of two   *)
(* letters, capitals, and more than 20 repeated words.                     *)
(***************************************************************************)
MaxRequirementLines == 3
NumRepeatedWords == 21

\* NumRepeatedWords words of three equal letters, from the last letter used down to the
\* second of the alphabet, and then all of them once more.
RepeatedWordsLine ==
    LET word(k) == LET c == 1072 + (NumRepeatedWords + 1 - k) IN <<c, c, c>>
        once == join([k \in 1..NumRepeatedWords |-> word(k)], <<Space>>)
    IN  once \o <<Space>> \o once

RequirementLines ==
  <<Cyr("opyt opyt opyt"),
    Cap(Cyr("r")) \o Cyr("abota rabota"),
    Cyr("kod"),
    Cyr("kod, da da"),
    Lat("Python, SQL, git, ") \o Cap(Cyr("l")) \o Cyr("iderstvo i kommunikaciA"),
    RepeatedWordsLine,
    Cap(Cyr("E")) \o Cyr("lka Elka"),
    Cyr("rabota"),
    Cyr("opytnyJ opytnyJ")>>

InitRequirements ==
    /\ analyzers = [a \in Instances |-> NewAnalyzer]
    /\ self = 1
    /\ resumeText = <<>>
    /\ vacancyText \in TextsOf(RequirementLines, MaxRequirementLines)
    /\ result = NoResult
    /\ log = <<>>
    /\ experienceArgs = undefined
    /\ experienceScore = undefined
    /\ request = NoRequest
    /\ response = NoResponse
    /\ frames = <<>>
    /\ blocks = undefined
    /\ recommendationCall = undefined
    /\ extracted = undefined
    /\ upload = NoUpload
    /\ page = NoPage

ExtractVacancyRequirements ==
    /\ extracted = undefined
    /\ extracted' = Some(extractVacancyRequirements(analyzers[self], vacancyText))
    /\ UNCHANGED <<analyzers, self, resumeText, vacancyText, result, log, experienceArgs,
                   experienceScore, request, response, frames, blocks, recommendationCall,
                   upload, page>>

NextRequirements == ExtractVacancyRequirements

SpecRequirements == InitRequirements /\ [][NextRequirements]_vars

\* The positions at which a maximal run of 3 or more lower-case Cyrillic letters starts.
WordStarts(t) ==
    {i \in 1..Len(t) : /\ IsCyrLower(t[i])
                       /\ (i = 1 \/ ~IsCyrLower(t[i - 1]))
                       /\ i + 2 <= Len(t) /\ IsCyrLower(t[i + 1]) /\ IsCyrLower(t[i + 2])}

WordAt(t, i) == SubSeq(t, i, RunEnd(t, i, IsCyrLower))

\* C20: each keyword is a maximal run of 3 or more lower-case Cyrillic letters of the
\* lower-cased vacancy text that occurs there at least twice; no keyword is repeated and
\* there are at most 20; the keywords are in the order of decreasing frequency, words of
\* equal frequency in the order of their first occurrence; a word that occurs twice is
\* left out only if 20 words that rank before it are keywords; technicalSkills and
\* softSkills are the vocabulary terms that occur in the text, whatever the case, in
\* vocabulary order.
VacancyKeywords ==
    extracted # undefined =>
        LET t == toLowerCase(vacancyText)
            keywords == extracted[1].keywords
            starts == WordStarts(t)
            word == [i \in starts |-> WordAt(t, i)]
            \* the first occurrence of each word, and the number of its occurrences
            firsts == {i \in starts : \A j \in starts : word[j] = word[i] => i <= j}
            freq == [i \in firsts |-> Cardinality({j \in starts : word[j] = word[i]})]
            Before(i, j) == freq[i] > freq[j] \/ (freq[i] = freq[j] /\ i < j)
            at == [k \in 1..Len(keywords) |->
                      IF \E i \in firsts : word[i] = keywords[k]
                      THEN CHOOSE i \in firsts : word[i] = keywords[k] ELSE 0]
            Occurs(term) == includes(t, toLowerCase(term))
        IN  /\ \A k \in 1..Len(keywords) : at[k] # 0 /\ freq[at[k]] >= 2
            /\ \A k, l \in 1..Len(keywords) : k < l =>
                   keywords[k] # keywords[l] /\ Before(at[k], at[l])
            /\ Len(keywords) <= 20
            /\ \A i \in firsts :
                   freq[i] >= 2 /\ ~arrayIncludes(keywords, word[i]) =>
                       /\ Len(keywords) = 20
                       /\ \A k \in 1..Len(keywords) : Before(at[k], i)
            /\ extracted[1].technicalSkills = SelectSeq(itSkills, Occurs)
            /\ extracted[1].softSkills = SelectSeq(softSkills, Occurs)

\* A vacancy text with a word that occurs three times, more than 20 words that occur
\* twice, two technical terms and two soft skills: the word of three occurrences comes
\* first, 19 of the others follow in the order of their first occurrence, and the last
\* ones are left out.
VacancyKeywordsWitness ==
    /\ extracted # undefined
    /\ vacancyText = join(<<RequirementLines[1], RequirementLines[5],
                            RequirementLines[6]>>, <<NewLine>>)
    /\ Len(extracted[1].keywords) = 20
    /\ extracted[1].keywords[1] = Cyr("opyt")
    /\ extracted[1].keywords[2] = WordAt(RepeatedWordsLine, 1)
    /\ ~arrayIncludes(extracted[1].keywords, Cyr("bbb"))
    /\ extracted[1].technicalSkills = <<Lat("python"), Lat("sql"), Lat("git")>>
    /\ extracted[1].softSkills = <<Cyr("kommunikaciA"), Cyr("liderstvo")>>

(***************************************************************************)
(* The sections detected in a résumé.                                      *)
(***************************************************************************)
\* C21: a category is in parsedResume.sections iff one of its keywords occurs in the
\* résumé text as parseResume reads it, whatever the case; no category is listed twice;
\* when no keyword of any category occurs, sections is empty and breakdown.structure is
\* at most 15.
SectionsDetected ==
    Done =>
        LET sections == result.parsedResume.sections
            text == toLowerCase(result.parsedResume.rawText)
        IN  /\ \A type \in DOMAIN standardSections :
                   (\E k \in 1..Len(sections) : sections[k] = type)
                       <=> (\E i \in 1..Len(standardSections[type]) :
                                includes(text, standardSections[type][i]))
            /\ \A k, l \in 1..Len(sections) : k # l => sections[k] # sections[l]
            /\ NoSectionKeyword(result.parsedResume.rawText) =>
                   sections = <<>> /\ result.breakdown.structure <= 15

\* A résumé whose headings are capitalised and name the experience and the contacts but
\* neither education nor skills.
SectionsDetectedWitness ==
    /\ Done
    /\ resumeText = join(<<ResumeLines[1], ResumeLines[4], ResumeLines[7]>>, <<NewLine>>)
    /\ result.parsedResume.sections = <<"experience", "contacts">>

(***************************************************************************)
(* analyzeResume on résumés whose name stands on any of the lines 1 to 6.  *)
(***************************************************************************)
MaxNameLines == 6

NameLines ==
  <<Lat("ivan@mail.ru"),
    Lat("+7 900 123 45 67"),
    Cyr("gorod ") \o Cap(Cyr("m")) \o Cyr("oskva"),
    Cyr("opyt raboty"),
    Lat("python, git"),
    Cap(Cyr("i")) \o Cyr("van ") \o Cap(Cyr("i")) \o Cyr("vanov"),
    Cap(Cyr("p")) \o Cyr("Etr ") \o Cap(Cyr("p")) \o Cyr("etrov ")
        \o Cap(Cyr("s")) \o Cyr("idorov, injener"),
    Lat("docker")>>

InitName ==
    /\ analyzers = [a \in Instances |-> NewAnalyzer]
    /\ self = 1
    /\ resumeText \in TextsOf(NameLines, MaxNameLines)
    /\ vacancyText = ExampleVacancy
    /\ result = NoResult
    /\ log = <<>>
    /\ experienceArgs = undefined
    /\ experienceScore = undefined
    /\ request = NoRequest
    /\ response = NoResponse
    /\ frames = <<>>
    /\ blocks = undefined
    /\ recommendationCall = undefined
    /\ extracted = undefined
    /\ upload = NoUpload
    /\ page = NoPage

SpecName == InitName /\ [][Next]_vars

\* C22: parsedResume.name is the match of the first of the first 5 lines of the résumé
\* that starts with 2 or 3 capitalised Cyrillic words: a name at the start of line 2, 3,
\* 4 or 5 is found when no earlier line matches, a name that stands on line 6 or later
\* only is not, and without a matching line the name is undefined.
NameFromFirstFiveLines ==
    Done => result.parsedResume.name = extractName(resumeText)

(***************************************************************************)
(* analyzeResume on résumés put together from the lines of a complete one: *)
(* name, email, phone, an experience heading with a detailed description,  *)
(* an education heading with an entry, a skills heading with the skills    *)
(* the vacancy asks for.                                                   *)
(***************************************************************************)
MaxCompleteLines == 9

CompleteLines ==
  <<Cap(Cyr("i")) \o Cyr("van ") \o Cap(Cyr("i")) \o Cyr("vanov"),
    Lat("ivan@mail.ru"),
    Lat("+7 900 123 45 67"),
    Cap(Cyr("o")) \o Cyr("pyt"),
    Cap(Cyr("p")) \o Cyr("roektirovanie i soprovojdenie servisov na ") \o Lat("Python, ")
        \o Cyr("sborka konteJnerov ") \o Lat("Docker, ") \o Cyr("hranenie koda v ")
        \o Lat("Git, ") \o Cyr("testy i dokumentaciA dlA komandy"),
    Cap(Cyr("o")) \o Cyr("brazovanie"),
    Cap(Cyr("m")) \o Cap(Cyr("g")) \o Cap(Cyr("u")) \o Cyr(", fizik"),
    Cap(Cyr("n")) \o Cyr("avyki"),
    Lat("python, docker, git")>>

InitComplete ==
    /\ analyzers = [a \in Instances |-> NewAnalyzer]
    /\ self = 1
    /\ resumeText \in TextsOf(CompleteLines, MaxCompleteLines)
    /\ vacancyText = ExampleVacancy
    /\ result = NoResult
    /\ log = <<>>
    /\ experienceArgs = undefined
    /\ experienceScore = undefined
    /\ request = NoRequest
    /\ response = NoResponse
    /\ frames = <<>>
    /\ blocks = undefined
    /\ recommendationCall = undefined
    /\ extracted = undefined
    /\ upload = NoUpload
    /\ page = NoPage

SpecComplete == InitComplete /\ [][Next]_vars

Affirmed == \E k \in 1..Len(result.recommendations) : result.recommendations[k] = wellOptimized

\* A résumé with full keyword coverage, the three standard sections, the three contacts
\* and an experience block of more than 100 characters under its heading.
CompleteResume ==
    /\ result.breakdown.keywords = 100
    /\ \A s \in {"experience", "education", "skills"} :
           arrayIncludes(result.parsedResume.sections, s)
    /\ result.parsedResume.email # undefined
    /\ result.parsedResume.phone # undefined
    /\ result.parsedResume.name # undefined
    /\ Len(LineBlock(resumeText, "experience")) > 100

\* C23: the affirmation is in the recommendations iff the conditions of rules 1 to 4 call
\* for no entry, it is then the only entry, and it is emitted for a résumé with full
\* keyword coverage, all standard sections, all contacts and a detailed experience block.
AffirmationRule ==
    Done =>
        /\ Affirmed <=> Called(result.breakdown, result.parsedResume,
                               result.missingKeywords) = <<>>
        /\ Affirmed => result.recommendations = <<wellOptimized>>
        /\ CompleteResume => Affirmed

(***************************************************************************)
(* The blocks of a parsed résumé.                                          *)
(***************************************************************************)
\* C24: for every résumé, parsedResume.experience and parsedResume.education are the
\* empty string and breakdown.experience is 0; rawText has no line break.
BlocksAlwaysEmpty ==
    Done =>
        /\ result.parsedResume.experience = <<>>
        /\ result.parsedResume.education = <<>>
        /\ result.breakdown.experience = 0
        /\ \A k \in 1..Len(result.parsedResume.rawText) :
               result.parsedResume.rawText[k] # NewLine

\* A résumé that has lines under its experience heading and under its education heading.
BlocksAlwaysEmptyWitness ==
    /\ Done
    /\ LineBlock(resumeText, "experience") = CompleteLines[5]
    /\ LineBlock(resumeText, "education") = CompleteLines[7]
    /\ result.parsedResume.experience = <<>>
    /\ result.parsedResume.education = <<>>

(***************************************************************************)
(* The experience warning in every analysis.                               *)
(***************************************************************************)
\* C25: the recommendations returned by analyzeResume always hold the experience warning
\* of rule 4 and never the affirmation.
ExperienceWarningAlways ==
    Done =>
        /\ \E k \in 1..Len(result.recommendations) :
               /\ result.recommendations[k].type = "warning"
               /\ result.recommendations[k].title = "describe experience"
        /\ \A k \in 1..Len(result.recommendations) :
               result.recommendations[k] # wellOptimized

\* The complete résumé, for which no other rule fires, gets the warning as its only
\* recommendation.
ExperienceWarningAlwaysWitness ==
    /\ Done
    /\ CompleteResume
    /\ resumeText = join(CompleteLines, <<NewLine>>)
    /\ Tags(result.recommendations) = << <<"warning", "describe experience">> >>

(***************************************************************************)
(* The partition of the requirement list.                                  *)
(***************************************************************************)
Range(seq) == {seq[k] : k \in 1..Len(seq)}

\* C26: every entry of the combined requirement list goes to exactly one of matched and
\* the whole missing list, both keep the order of the requirement list, their lengths add
\* up to the number of requirements, and breakdown.keywords is 100 iff no requirement is
\* unmatched.
KeywordPartition ==
    Done =>
        LET p == partitionRequirements(result.parsedResume,
                                       extractVacancyRequirements(NewAnalyzer, vacancyText))
            InMatched(requirement) == requirement \in Range(p.matched)
            InMissing(requirement) == requirement \in Range(p.missing)
        IN  /\ p.allRequirements = RequirementList(vacancyText)
            /\ \A k \in 1..Len(p.allRequirements) :
                   InMatched(p.allRequirements[k]) # InMissing(p.allRequirements[k])
            /\ p.matched = SelectSeq(p.allRequirements, InMatched)
            /\ p.missing = SelectSeq(p.allRequirements, InMissing)
            /\ Len(p.matched) + Len(p.missing) = Len(p.allRequirements)
            /\ p.missing = Unmatched(resumeText, vacancyText)
            /\ result.matchedKeywords = p.matched
            /\ Len(p.allRequirements) <= Len(itSkills) + Len(softSkills) + 20
            /\ result.breakdown.keywords = 100 <=> p.missing = <<>>

\* A vacancy with 40 requirements and a résumé that matches some of them: the score
\* stays below 100.
KeywordPartitionWitness ==
    /\ Done
    /\ Len(RequirementList(vacancyText)) >= 40
    /\ Len(result.matchedKeywords) > 10
    /\ Len(Unmatched(resumeText, vacancyText)) > 10
    /\ result.breakdown.keywords \in 1..99

(***************************************************************************)
(* The contacts recommendation and the missing name.                       *)
(***************************************************************************)
ContactsReported ==
    \E k \in 1..Len(result.recommendations) : result.recommendations[k].title = "contacts"

\* C27: a résumé with email and phone but without a name gets contacts = 80 and no
\* contacts recommendation; the contacts recommendation is emitted exactly when
\* contacts < 80, which is exactly when the email or the phone is missing.
MissingNameUnreported ==
    Done =>
        LET p == result.parsedResume
        IN  /\ p.email # undefined /\ p.phone # undefined /\ p.name = undefined =>
                   result.breakdown.contacts = 80 /\ ~ContactsReported
            /\ ContactsReported <=> result.breakdown.contacts < 80
            /\ result.breakdown.contacts < 80 <=> p.email = undefined \/ p.phone = undefined

\* A résumé with email and phone whose first line is not a name.
MissingNameUnreportedWitness ==
    /\ Done
    /\ result.parsedResume.email # undefined
    /\ result.parsedResume.phone # undefined
    /\ result.parsedResume.name = undefined
    /\ result.breakdown.contacts = 80
    /\ ~ContactsReported

(***************************************************************************)
(* The upload handler that runs the Python analyzer                        *)
(* (src/src/app/api/analyze/route.ts, POST and runPythonAnalyzer).  One    *)
(* action is the code between two awaits, or one event of the child        *)
(* process or of the timer.  upload.disk is the set of temporary files     *)
(* that exist, upload.written the set of those the handler created,        *)
(* upload.events the events delivered to the callbacks of                  *)
(* runPythonAnalyzer, in order.                                            *)
(***************************************************************************)
FileKinds == {"absent", "valid", "large", "unsupported"}

Pending == [state |-> "pending", outcome |-> "none"]

Upload(resume, vacancy, readable) ==
    [pc |-> "received", readable |-> readable, resume |-> resume, vacancy |-> vacancy,
     tempFiles |-> <<>>, next |-> 1, disk |-> {}, written |-> {}, unlinkErrors |-> {},
     promise |-> [state |-> "none", outcome |-> "none"], child |-> "none",
     timer |-> "unset", events |-> <<>>, status |-> 0]

InitUpload ==
    /\ analyzers = [a \in Instances |-> NewAnalyzer]
    /\ self = 1
    /\ resumeText = <<>>
    /\ vacancyText = <<>>
    /\ result = NoResult
    /\ log = <<>>
    /\ experienceArgs = undefined
    /\ experienceScore = undefined
    /\ request = NoRequest
    /\ response = NoResponse
    /\ frames = <<>>
    /\ blocks = undefined
    /\ recommendationCall = undefined
    /\ extracted = undefined
    /\ upload \in {Upload(r, v, b) : r \in FileKinds, v \in FileKinds, b \in BOOLEAN}
    /\ page = NoPage

UploadUnchanged ==
    UNCHANGED <<analyzers, self, resumeText, vacancyText, result, log, experienceArgs,
                experienceScore, request, response, frames, blocks, recommendationCall,
                extracted, page>>

\* POST up to the first writeFile: request.formData(), the three validations, tempFiles.
\* A return or a throw inside try goes on to the finally block.
ReceiveUpload ==
    /\ upload.pc = "received"
    /\ upload' =
         IF ~upload.readable
         THEN [upload EXCEPT !.status = 500, !.pc = "finally"]
         ELSE IF upload.resume = "absent" \/ upload.vacancy = "absent"
         THEN [upload EXCEPT !.status = 400, !.pc = "finally"]
         ELSE IF upload.resume = "large" \/ upload.vacancy = "large"
         THEN [upload EXCEPT !.status = 400, !.pc = "finally"]
         ELSE IF upload.resume = "unsupported" \/ upload.vacancy = "unsupported"
         THEN [upload EXCEPT !.status = 400, !.pc = "finally"]
         ELSE [upload EXCEPT !.tempFiles = <<"resumeTempPath", "vacancyTempPath">>,
                             !.pc = "write"]
    /\ UploadUnchanged

\* await writeFile(...) for the next of the two files.  A write that fails may leave the
\* file behind, and the handler goes to catch and finally.
WriteTempFile ==
    /\ upload.pc = "write"
    /\ LET file == upload.tempFiles[upload.next]
       IN  \/ upload' = [upload EXCEPT !.disk = @ \cup {file}, !.written = @ \cup {file},
                                       !.next = @ + 1,
                                       !.pc = IF upload.next = 2 THEN "spawn" ELSE "write"]
           \/ \E left \in BOOLEAN :
                  upload' = [upload EXCEPT
                                 !.disk = IF left THEN @ \cup {file} ELSE @,
                                 !.written = IF left THEN @ \cup {file} ELSE @,
                                 !.status = 500, !.next = 1, !.pc = "finally"]
    /\ UploadUnchanged

\* The executor of the promise of runPythonAnalyzer: spawn, the callbacks, setTimeout.
RunPythonAnalyzer ==
    /\ upload.pc = "spawn"
    /\ upload' = [upload EXCEPT !.child = "running", !.timer = "armed",
                                !.promise = Pending, !.pc = "await"]
    /\ UploadUnchanged

\* resolve or reject: of no effect on a promise that is settled.
Settle(promise, state, outcome) ==
    IF promise.state = "pending" THEN [state |-> state, outcome |-> outcome] ELSE promise

\* A variant of the timer callback that replaces the outcome of a settled promise.
TimeoutOverwrites ==
    /\ upload.timer = "armed"
    /\ upload' = [upload EXCEPT
                      !.timer = "fired",
                      !.child = IF @ = "running" THEN "killed" ELSE @,
                      !.events = Append(@, "timeout"),
                      !.promise = [state |-> "rejected", outcome |-> "timeout"]]
    /\ UploadUnchanged

\* pythonProcess.on('close'): the exit code and whether stdout is JSON.
ChildClose ==
    /\ upload.child \in {"running", "killed", "failed"}
    /\ \E code \in (IF upload.child = "failed" THEN {1} ELSE {0, 1}), parses \in BOOLEAN :
           upload' = [upload EXCEPT
                          !.child = "closed",
                          !.events = Append(@, IF code # 0 THEN "exit code"
                                               ELSE IF parses THEN "result"
                                               ELSE "unparsable"),
                          !.promise = IF code # 0 THEN Settle(@, "rejected", "exit code")
                                      ELSE IF parses THEN Settle(@, "resolved", "result")
                                      ELSE Settle(@, "rejected", "unparsable")]
    /\ UploadUnchanged

\* pythonProcess.on('error'): the process could not be started.
ChildError ==
    /\ upload.child = "running"
    /\ upload.events = <<>>
    /\ upload' = [upload EXCEPT !.child = "failed",
                                !.events = Append(@, "error"),
                                !.promise = Settle(@, "rejected", "error")]
    /\ UploadUnchanged

\* The callback of setTimeout(..., 30000); the timer is never cleared.
Timeout ==
    /\ upload.timer = "armed"
    /\ upload' = [upload EXCEPT
                      !.timer = "fired",
                      !.child = IF @ = "running" THEN "killed" ELSE @,
                      !.events = Append(@, "timeout"),
                      !.promise = Settle(@, "rejected", "timeout")]
    /\ UploadUnchanged

\* POST after await runPythonAnalyzer(...): the response or the catch block.
AwaitAnalyzer ==
    /\ upload.pc = "await"
    /\ upload.promise.state \in {"resolved", "rejected"}
    /\ upload' = [upload EXCEPT
                      !.status = IF upload.promise.state = "resolved" THEN 200 ELSE 500,
                      !.next = 1, !.pc = "finally"]
    /\ UploadUnchanged

\* A variant of the clean-up that belongs to the catch block: nothing is deleted after a
\* successful analysis.
UnlinkOnFailureOnly ==
    /\ upload.pc = "finally"
    /\ upload.next <= Len(upload.tempFiles)
    /\ LET file == upload.tempFiles[upload.next]
       IN  IF file \in upload.disk /\ upload.status # 200
           THEN \/ upload' = [upload EXCEPT !.disk = @ \ {file}, !.next = @ + 1]
                \/ upload' = [upload EXCEPT !.unlinkErrors = @ \cup {file}, !.next = @ + 1]
           ELSE upload' = [upload EXCEPT !.next = @ + 1]
    /\ UploadUnchanged

\* One turn of the loop of the finally block: existsSync, then await unlink, whose
\* failure is caught and logged.
Unlink ==
    /\ upload.pc = "finally"
    /\ upload.next <= Len(upload.tempFiles)
    /\ LET file == upload.tempFiles[upload.next]
       IN  IF file \in upload.disk
           THEN \/ upload' = [upload EXCEPT !.disk = @ \ {file}, !.next = @ + 1]
                \/ upload' = [upload EXCEPT !.unlinkErrors = @ \cup {file}, !.next = @ + 1]
           ELSE upload' = [upload EXCEPT !.next = @ + 1]
    /\ UploadUnchanged

\* The end of the finally block: the handler returns its response.
ReturnResponse ==
    /\ upload.pc = "finally"
    /\ upload.next > Len(upload.tempFiles)
    /\ upload' = [upload EXCEPT !.pc = "done"]
    /\ UploadUnchanged

NextUpload ==
    \/ ReceiveUpload
    \/ WriteTempFile
    \/ RunPythonAnalyzer
    \/ ChildClose
    \/ ChildError
    \/ Timeout
    \/ AwaitAnalyzer
    \/ Unlink
    \/ ReturnResponse

SpecUpload == InitUpload /\ [][NextUpload]_vars

\* The timer of setTimeout fires when its time has passed.
SpecUploadLive == SpecUpload /\ WF_vars(Timeout)

\* C28 as stated: when the handler has returned its response, no temporary file it wrote
\* exists, on every path; a request rejected by validation has created no temporary file.
TempFilesDeleted ==
    /\ upload.pc = "done" => upload.written \cap upload.disk = {}
    /\ upload.status = 400 => upload.written = {}

\* C28 amended: when the handler has returned its response, every temporary file it wrote
\* has been deleted or its unlink has failed, the failure being logged and dropped; a
\* request rejected by validation has created no temporary file and started no process.
TempFilesCleanedUp ==
    /\ upload.pc = "done" =>
           /\ upload.written \cap upload.disk = upload.unlinkErrors
           /\ upload.unlinkErrors = {} => upload.disk = {}
    /\ upload.status = 400 =>
           upload.written = {} /\ upload.disk = {} /\ upload.child = "none"

\* The handler has answered 500 after the timeout, with both files written and deleted.
TempFilesCleanedUpWitness ==
    /\ upload.pc = "done"
    /\ upload.status = 500
    /\ upload.promise.outcome = "timeout"
    /\ upload.written = {"resumeTempPath", "vacancyTempPath"}
    /\ upload.disk = {}

(***************************************************************************)
(* The promise of runPythonAnalyzer.                                       *)
(***************************************************************************)
Settled == upload.promise.state \in {"resolved", "rejected"}

\* C29: the promise settles in every execution; it settles once, with the outcome of the
\* first of the close, error and timeout events, and later events leave it as it is; it
\* is resolved only when the child has closed with exit code 0 and its output has been
\* parsed.
PromiseSettlesOnce ==
    /\ [](upload.promise.state = "pending" => upload.events = <<>>)
    /\ [](Settled => /\ upload.events # <<>>
                     /\ upload.promise.outcome = upload.events[1]
                     /\ upload.promise.state = "resolved" <=> upload.events[1] = "result")
    /\ [][Settled => upload'.promise = upload.promise]_vars
    /\ (upload.promise.state = "pending") ~> Settled

\* The child has closed with a result and the timer, never cleared, has fired afterwards:
\* the promise is still resolved.
PromiseSettlesOnceWitness ==
    /\ upload.promise = [state |-> "resolved", outcome |-> "result"]
    /\ upload.events = <<"result", "timeout">>
    /\ upload.timer = "fired"

(***************************************************************************)
(* HomePage (src/src/app/page.tsx and src/page.tsx).  The inputs are kept  *)
(* as what the code tests: whether a file is chosen, whether a text is     *)
(* non-blank after trim.  In the variant "text" the vacancy is a text      *)
(* only; in the variant "file" (src/page.tsx) it may also be a file.  One  *)
(* action of handleAnalyze is the code between two awaits.                 *)
(***************************************************************************)
MaxRuns == 3

Page(variant) ==
    [variant |-> variant, resumeFile |-> FALSE, resumeText |-> FALSE,
     vacancyFile |-> FALSE, vacancyText |-> FALSE, isAnalyzing |-> FALSE,
     analysisResult |-> "null", error |-> "null", pc |-> "idle", branch |-> "none",
     ok |-> FALSE, runs |-> 0]

InitPage ==
    /\ analyzers = [a \in Instances |-> NewAnalyzer]
    /\ self = 1
    /\ resumeText = <<>>
    /\ vacancyText = <<>>
    /\ result = NoResult
    /\ log = <<>>
    /\ experienceArgs = undefined
    /\ experienceScore = undefined
    /\ request = NoRequest
    /\ response = NoResponse
    /\ frames = <<>>
    /\ blocks = undefined
    /\ recommendationCall = undefined
    /\ extracted = undefined
    /\ upload = NoUpload
    /\ page \in {Page("text"), Page("file")}

PageUnchanged ==
    UNCHANGED <<analyzers, self, resumeText, vacancyText, result, log, experienceArgs,
                experienceScore, request, response, frames, blocks, recommendationCall,
                extracted, upload>>

hasResumeData == page.resumeFile \/ page.resumeText
hasVacancyData == page.vacancyFile \/ page.vacancyText

\* The button is enabled iff canAnalyze.
canAnalyze == hasResumeData /\ hasVacancyData /\ ~page.isAnalyzing

\* setResumeFile, setResumeText, setVacancyText and, in the variant "file",
\* setVacancyFile: the user changes an input, at any time.
Edit ==
    /\ page.pc # "none"
    /\ \E field \in {"resumeFile", "resumeText", "vacancyText"}
                      \cup (IF page.variant = "file" THEN {"vacancyFile"} ELSE {}) :
           page' = [page EXCEPT ![field] = ~@]
    /\ PageUnchanged

\* catch and finally of handleAnalyze: the error is set and the run ends.
Failed(p) ==
    [p EXCEPT !.error = "message", !.isAnalyzing = FALSE, !.pc = "idle",
              !.runs = @ + 1]

\* A click on the enabled button: handleAnalyze up to its first await.
HandleAnalyze ==
    /\ page.pc # "none"
    /\ canAnalyze
    /\ page.runs < MaxRuns
    /\ IF ~hasResumeData \/ ~hasVacancyData
       THEN page' = [page EXCEPT !.error = "message"]
       ELSE LET started == [page EXCEPT !.isAnalyzing = TRUE, !.error = "null",
                                        !.analysisResult = "null"]
                files == IF page.variant = "file" THEN page.vacancyFile
                         ELSE page.vacancyText
            IN  IF page.resumeText /\ page.vacancyText
                THEN page' = [started EXCEPT !.pc = "fetch", !.branch = "text"]
                ELSE IF page.resumeFile /\ files
                THEN page' = [started EXCEPT !.pc = "fetch", !.branch = "form"]
                ELSE page' = Failed(started)
    /\ PageUnchanged

\* await fetch(...): a response arrives, ok or not, or fetch throws.
FetchReturns ==
    /\ page.pc = "fetch"
    /\ \/ \E ok \in BOOLEAN : page' = [page EXCEPT !.pc = "json", !.ok = ok]
       \/ page' = Failed(page)
    /\ PageUnchanged

\* A variant in which the state is reset only after a successful analysis.
JsonReturnsNoFinally ==
    /\ page.pc = "json"
    /\ \/ /\ page.ok
          /\ page' = [page EXCEPT !.analysisResult = "result", !.isAnalyzing = FALSE,
                                  !.pc = "idle", !.runs = @ + 1]
       \/ page' = [page EXCEPT !.error = "message", !.pc = "idle", !.runs = @ + 1]
    /\ PageUnchanged

\* await response.json(): the body is parsed, or json() throws; a body of a response
\* that is not ok is thrown as an error.
JsonReturns ==
    /\ page.pc = "json"
    /\ \/ /\ page.ok
          /\ page' = [page EXCEPT !.analysisResult = "result", !.isAnalyzing = FALSE,
                                  !.pc = "idle", !.runs = @ + 1]
       \/ page' = Failed(page)
    /\ PageUnchanged

NextPage == Edit \/ HandleAnalyze \/ FetchReturns \/ JsonReturns

SpecPage == InitPage /\ [][NextPage]_vars

\* An awaited fetch and an awaited response.json() settle.
SpecPageLive == SpecPage /\ WF_vars(FetchReturns) /\ WF_vars(JsonReturns)

\* C30: every run that sets isAnalyzing sets it back to false, whether the request
\* succeeds, the server answers with an error or fetch throws; while isAnalyzing is true
\* canAnalyze is false, so no run starts during a run; when a run ends exactly one of
\* error and analysisResult is not null.
AnalyzeRuns ==
    /\ [](page.isAnalyzing => ~canAnalyze)
    /\ [](page.pc # "idle" <=> page.isAnalyzing)
    /\ [][page'.runs # page.runs =>
              /\ ~page'.isAnalyzing
              /\ (page'.error = "null") # (page'.analysisResult = "null")]_vars
    /\ [][page.pc # "idle" => ~(page'.isAnalyzing /\ page'.runs # page.runs)]_vars
    /\ page.isAnalyzing ~> ~page.isAnalyzing

\* Two runs have ended, the second with an error: the error is shown and no result.
AnalyzeRunsWitness ==
    /\ page.pc = "idle"
    /\ page.runs = 2
    /\ page.error = "message"
    /\ page.analysisResult = "null"
    /\ ~page.isAnalyzing

====
